---- MODULE Spec2Model ----
(***************************************************************************)
(* Schedule override resolver, bulk instance generator and the direct      *)
(* insert of the "create instance" page, over the tables route_schedules   *)
(* and schedule_instances; the conflict detector; the near-deadline        *)
(* notifier over route_alerts and audit_logs; the route distance cache.    *)
(*                                                                         *)
(* Dates are day numbers, day 0 being a Sunday, so that EXTRACT(DOW ...)   *)
(* is d % 7.  Times of day are small naturals, minutes after midnight      *)
(* where the clock matters.  UUIDs are small naturals.                     *)
(* SQL NULL is the value NULL for dates, times and ids; SQL booleans are   *)
(* the strings "TRUE", "FALSE" and "NULL" (three-valued logic).            *)
(***************************************************************************)
EXTENDS Integers, Sequences, FiniteSets, TLC

VARIABLES
    route_schedules,     \* table route_schedules: template id -> row
    schedule_instances,  \* table schedule_instances: a set of rows
    next_id,             \* the next id gen by the id default of schedule_instances
    writes,              \* number of rows written to schedule_instances so far
    ops,                 \* the sessions that have issued their request
    last_call,           \* the last finished create / insert call and its outcome
    bulk,                \* the generate_schedule_instances_bulk runs in progress
    conflicts,           \* the last call of detect_schedule_conflicts_enhanced
    now,                 \* the clock, in minutes since midnight of day 0
    route_alerts,        \* table route_alerts: a set of rows
    audit_logs,          \* table audit_logs: the records in insertion order
    last_check,          \* the last check-near-deadline invocation and its response
    routes,              \* table routes: route id -> row
    route_distance_cache,\* table route_distance_cache: a set of rows
    last_distance,       \* the last getRouteDistance call and its outcome
    last_batch,          \* the last batchCalculateRoutes call and what it returned
    form,                \* CrossDayScheduleForm: its values and the preview it shows
    board,               \* ScheduleKanban: the selected date and the last drop
    grid                 \* LargeScaleScheduleGrid: week, filters and pagination

\* the variables of the deadline notifier and of the distance cache
alertVars == <<route_alerts, audit_logs, last_check>>
distanceVars == <<routes, route_distance_cache, last_distance, last_batch>>
uiVars == <<form, board, grid>>

vars == <<route_schedules, schedule_instances, next_id, writes, ops, last_call, bulk,
          conflicts, now, route_alerts, audit_logs, last_check,
          routes, route_distance_cache, last_distance, last_batch,
          form, board, grid>>

----------------------------------------------------------------------------
(* Bounds *)

MaxDate == 1        \* schedule dates are 0 .. MaxDate
MaxTime == 1        \* times of day are 0 .. MaxTime
MaxBatch == 2       \* batchCalculateRoutes is given up to MaxBatch pairs
MaxWeek == 1        \* the grid is moved up to MaxWeek weeks from the first day's week

NULL == -1

Dates == 0 .. MaxDate
Times == 0 .. MaxTime
TemplateIds == {1, 2}
UnknownTemplateId == 9
Drivers == {1, 2}
Vehicles == {1}
BulkProcs == {1, 2}

\* a session (a browser tab, a scheduled job) issues one request
Sessions == {1, 2}
Caller == {1}

ScheduleStatuses == {"Active", "Inactive", "Draft"}
InstanceStatuses == {"Scheduled", "Confirmed", "In Progress", "Completed", "Cancelled"}

Nullable(S) == S \cup {NULL}

----------------------------------------------------------------------------
(* SQL expressions *)

COALESCE(a, b) == IF a # NULL THEN a ELSE b

\* a < b, a != b on nullable operands: NULL when either side is NULL
SqlLt(a, b) == IF a = NULL \/ b = NULL THEN "NULL" ELSE IF a < b THEN "TRUE" ELSE "FALSE"
SqlNe(a, b) == IF a = NULL \/ b = NULL THEN "NULL" ELSE IF a # b THEN "TRUE" ELSE "FALSE"
SqlGt(a, b) == IF a = NULL \/ b = NULL THEN "NULL" ELSE IF a > b THEN "TRUE" ELSE "FALSE"

\* array_length(arr, 1): NULL for an empty array
array_length(arr) == IF Len(arr) = 0 THEN NULL ELSE Len(arr)

\* array_append(arr, e)
array_append(arr, e) == Append(arr, e)

\* EXTRACT(DOW FROM d): 0 = Sunday .. 6 = Saturday
DOW(d) == d % 7

\* a NULL integer array (days_of_week IS NULL), as opposed to the empty array {}
NullArray == {NULL}

GREATEST(a, b) == IF a >= b THEN a ELSE b
LEAST(a, b) == IF a <= b THEN a ELSE b

----------------------------------------------------------------------------
(* calculate_departure_date *)

calculate_departure_date_le(p_standby_date, p_standby_time, p_departure_time) ==
    IF p_departure_time # NULL /\ p_standby_time # NULL /\ p_departure_time <= p_standby_time
    THEN p_standby_date + 1
    ELSE p_standby_date

calculate_departure_date(p_standby_date, p_standby_time, p_departure_time) ==
    IF SqlLt(p_departure_time, p_standby_time) = "TRUE"
    THEN p_standby_date + 1
    ELSE p_standby_date

----------------------------------------------------------------------------
(* create_schedule_instance_with_override *)

\* SELECT * INTO v_route_schedule ... : every field is NULL when no row matches
NoRouteSchedule ==
    [status |-> "NULL", days_of_week |-> NullArray, start_date |-> NULL, end_date |-> NULL,
     standby_time |-> NULL, departure_time |-> NULL,
     default_driver_id |-> NULL, default_vehicle_id |-> NULL]

FOUND_always(rs, p_route_schedule_id) == TRUE

FOUND(rs, p_route_schedule_id) == p_route_schedule_id \in DOMAIN rs

SelectRouteSchedule(rs, p_route_schedule_id) ==
    IF p_route_schedule_id \in DOMAIN rs THEN rs[p_route_schedule_id] ELSE NoRouteSchedule

\* IF <cond> THEN array_append(...) END IF: the branch is taken only when cond is TRUE
AppendIf(cond, arr, name) == IF cond = "TRUE" THEN array_append(arr, name) ELSE arr

OverrideFields(v_route_schedule, p_standby_time, p_departure_time, p_driver_id, p_vehicle_id) ==
    LET f0 == << >>
        f1 == AppendIf(SqlNe(p_standby_time, v_route_schedule.standby_time), f0, "standby_time")
        f2 == AppendIf(SqlNe(p_departure_time, v_route_schedule.departure_time), f1, "departure_time")
        f3 == AppendIf(SqlNe(p_driver_id, v_route_schedule.default_driver_id), f2, "driver_id")
        f4 == AppendIf(SqlNe(p_vehicle_id, v_route_schedule.default_vehicle_id), f3, "vehicle_id")
    IN  f4

Conflicting(rows, new) ==
    {r \in rows : r.route_schedule_id = new.route_schedule_id
                  /\ r.schedule_date = new.schedule_date}

\* an update that assigns every column of EXCLUDED but the id
DoUpdate_all(old, new) == [new EXCEPT !.id = old.id]

\* the columns DO UPDATE SET assigns from EXCLUDED; id, route_schedule_id,
\* schedule_date, status, created_by, created_at and the actual times keep the
\* values of the existing row
DoUpdate(old, new) ==
    [old EXCEPT !.standby_date = new.standby_date,
                !.standby_time = new.standby_time,
                !.departure_date = new.departure_date,
                !.departure_time = new.departure_time,
                !.driver_id = new.driver_id,
                !.vehicle_id = new.vehicle_id,
                !.is_override = new.is_override,
                !.override_fields = new.override_fields]

\* a plain INSERT, without the ON CONFLICT clause and without the unique index
InsertAlways(rows, nid, new) ==
    [rows |-> rows \cup {[new EXCEPT !.id = nid]}, id |-> nid, next_id |-> nid + 1]

\* an upsert that deletes the conflicting row and inserts the new one
InsertReplace(rows, nid, new) ==
    [rows |-> (rows \ Conflicting(rows, new)) \cup {[new EXCEPT !.id = nid]},
     id |-> nid, next_id |-> nid + 1]

\* INSERT ... ON CONFLICT (route_schedule_id, schedule_date) DO UPDATE ... RETURNING id
InsertOnConflict(rows, nid, new) ==
    IF Conflicting(rows, new) = {}
    THEN [rows |-> rows \cup {[new EXCEPT !.id = nid]}, id |-> nid, next_id |-> nid + 1]
    ELSE LET old == CHOOSE r \in Conflicting(rows, new) : TRUE
         IN  [rows |-> (rows \ {old}) \cup {DoUpdate(old, new)},
              id |-> old.id, next_id |-> nid]

CreateArgs(id, sched, sdate, stime, dtime, drv, veh) ==
    [p_route_schedule_id |-> id, p_schedule_date |-> sched, p_standby_date |-> sdate,
     p_standby_time |-> stime, p_departure_time |-> dtime,
     p_driver_id |-> drv, p_vehicle_id |-> veh]

\* p_created_by UUID DEFAULT NULL: NULL when the caller does not pass it
p_created_by(a) == IF "p_created_by" \in DOMAIN a THEN a.p_created_by ELSE NULL

\* the whole function: the outcome, the returned id and the table afterwards;
\* status, created_at and the actual times are not in the column list and
\* take the column defaults (created_at: now(), the time t of the transaction)
create_schedule_instance_with_override(rs, rows, nid, a, t) ==
    LET v_route_schedule == SelectRouteSchedule(rs, a.p_route_schedule_id)
        p_standby_date == COALESCE(a.p_standby_date, a.p_schedule_date)
        p_standby_time == COALESCE(a.p_standby_time, v_route_schedule.standby_time)
        p_departure_time == COALESCE(a.p_departure_time, v_route_schedule.departure_time)
        v_departure_date == calculate_departure_date(p_standby_date, p_standby_time, p_departure_time)
        v_override_fields == OverrideFields(v_route_schedule, p_standby_time, p_departure_time,
                                            a.p_driver_id, a.p_vehicle_id)
        new == [id |-> NULL,
                route_schedule_id |-> a.p_route_schedule_id,
                schedule_date |-> a.p_schedule_date,
                standby_date |-> p_standby_date,
                standby_time |-> p_standby_time,
                departure_date |-> v_departure_date,
                departure_time |-> p_departure_time,
                driver_id |-> a.p_driver_id,
                vehicle_id |-> a.p_vehicle_id,
                is_override |-> SqlGt(array_length(v_override_fields), 0),
                override_fields |-> v_override_fields,
                status |-> "Scheduled",
                created_by |-> p_created_by(a),
                created_at |-> t,
                actual_departure_time |-> NULL,
                actual_arrival_time |-> NULL]
        ins == InsertOnConflict(rows, nid, new)
    IN  IF ~FOUND(rs, a.p_route_schedule_id)
        THEN [error |-> "Route schedule not found", id |-> NULL, rows |-> rows, next_id |-> nid]
        ELSE [error |-> "none", id |-> ins.id, rows |-> ins.rows, next_id |-> ins.next_id]

----------------------------------------------------------------------------
(* The direct insert of CreateScheduleInstancePage *)

\* ON CONFLICT (route_schedule_id, schedule_date) needs a unique index on the
\* two columns to be accepted at all; a plain INSERT of a second row for a
\* pair is rejected by that index
UniqueViolation(rows, new) == Conflicting(rows, new) # {}

\* supabase.from('schedule_instances').insert(instanceData) at time t: the
\* columns the page does not send take their defaults
InsertInstance(rows, nid, d, t) ==
    LET new == [id |-> nid,
                route_schedule_id |-> d.route_schedule_id,
                schedule_date |-> d.schedule_date,
                standby_date |-> NULL,
                standby_time |-> d.standby_time,
                departure_date |-> NULL,
                departure_time |-> d.departure_time,
                driver_id |-> d.driver_id,
                vehicle_id |-> d.vehicle_id,
                is_override |-> "FALSE",
                override_fields |-> << >>,
                status |-> d.status,
                created_by |-> NULL,
                created_at |-> t,
                actual_departure_time |-> NULL,
                actual_arrival_time |-> NULL]
    IN  IF UniqueViolation(rows, new)
        THEN [error |-> "duplicate key", id |-> NULL, rows |-> rows, next_id |-> nid]
        ELSE [error |-> "none", id |-> nid, rows |-> rows \cup {new}, next_id |-> nid + 1]

----------------------------------------------------------------------------
(* generate_schedule_instances_bulk, one step per statement that reads or  *)
(* writes schedule_instances                                               *)

\* the rows the FOR loop's query selects
SelectedSchedules(rs, p_start_date, p_end_date, p_route_schedule_ids) ==
    {t \in DOMAIN rs :
        /\ rs[t].status = "Active"
        /\ (p_route_schedule_ids = NullArray \/ t \in p_route_schedule_ids)
        /\ rs[t].start_date <= p_end_date
        /\ (rs[t].end_date = NULL \/ rs[t].end_date >= p_start_date)}

\* EXTRACT(DOW FROM v_date_cursor) = ANY(COALESCE(days_of_week, ARRAY[1..7]))
DayIncluded(days_of_week, d) ==
    DOW(d) \in (IF days_of_week = NullArray THEN 1 .. 7 ELSE days_of_week)

\* the upper end of the WHILE loop for one template
LastDate(t, p_end_date) == LEAST(p_end_date, COALESCE(t.end_date, p_end_date))

NotExists_always(rows, id, d) == TRUE

\* NOT EXISTS (SELECT 1 FROM schedule_instances WHERE ...)
NotExists(rows, id, d) ==
    ~ \E r \in rows : r.route_schedule_id = id /\ r.schedule_date = d

IdleRun ==
    [pc |-> "idle", p_start_date |-> NULL, p_end_date |-> NULL,
     p_route_schedule_ids |-> NullArray, todo |-> << >>,
     v_route_schedule |-> NULL, v_date_cursor |-> NULL, v_count |-> 0,
     pred |-> {}, before |-> {}, writes0 |-> 0, after |-> {}, writes1 |-> 0]

\* Moves a run to the next (template, day) whose NOT EXISTS test is due: skips
\* the days the weekday test excludes, enters the next template of the FOR
\* loop when the WHILE loop ends, and reaches "return" when no template is left.
RECURSIVE Seek(_, _)
Seek(rs, b) ==
    IF b.v_route_schedule = NULL
    THEN IF b.todo = << >>
         THEN [b EXCEPT !.pc = "return"]
         ELSE Seek(rs, [b EXCEPT !.v_route_schedule = Head(b.todo),
                                 !.todo = Tail(b.todo),
                                 !.v_date_cursor =
                                     GREATEST(b.p_start_date, rs[Head(b.todo)].start_date)])
    ELSE IF b.v_date_cursor <= LastDate(rs[b.v_route_schedule], b.p_end_date)
         THEN IF DayIncluded(rs[b.v_route_schedule].days_of_week, b.v_date_cursor)
              THEN [b EXCEPT !.pc = "check"]
              ELSE Seek(rs, [b EXCEPT !.v_date_cursor = b.v_date_cursor + 1])
         ELSE Seek(rs, [b EXCEPT !.v_route_schedule = NULL, !.v_date_cursor = NULL])

\* v_date_cursor := v_date_cursor + INTERVAL '1 day', then on to the next test
NextDay(rs, b) == Seek(rs, [b EXCEPT !.v_date_cursor = b.v_date_cursor + 1])

\* the orders in which the FOR loop may visit a set of rows (no ORDER BY)
Orders(S) ==
    {o \in [1 .. Cardinality(S) -> S] : \A i, j \in DOMAIN o : i # j => o[i] # o[j]}

\* the arguments the generator passes to create_schedule_instance_with_override
BulkCreateArgs(rs, id, d) ==
    CreateArgs(id, d, d, rs[id].standby_time, rs[id].departure_time,
               rs[id].default_driver_id, rs[id].default_vehicle_id)

\* the statements of a run from its current NOT EXISTS test to RETURN v_count,
\* with no other transaction in between
RECURSIVE RunBulk(_, _, _, _, _)
RunBulk(rs, rows, nid, b, t) ==
    IF b.pc # "check"
    THEN [rows |-> rows, next_id |-> nid, v_count |-> b.v_count]
    ELSE IF NotExists(rows, b.v_route_schedule, b.v_date_cursor)
         THEN LET r == create_schedule_instance_with_override(
                           rs, rows, nid,
                           BulkCreateArgs(rs, b.v_route_schedule, b.v_date_cursor), t)
              IN  RunBulk(rs, r.rows, r.next_id,
                          NextDay(rs, [b EXCEPT !.v_count = b.v_count + 1]), t)
         ELSE RunBulk(rs, rows, nid, NextDay(rs, b), t)

\* generate_schedule_instances_bulk run alone at time t, visiting the templates
\* in order o
generate_schedule_instances_bulk(rs, rows, nid, p_start_date, p_end_date, ids, o, t) ==
    RunBulk(rs, rows, nid,
            Seek(rs, [IdleRun EXCEPT !.p_start_date = p_start_date,
                                     !.p_end_date = p_end_date,
                                     !.p_route_schedule_ids = ids, !.todo = o]), t)

----------------------------------------------------------------------------
(* The materialized view schedule_overview, as a refresh computes it.  Every  *)
(* template has its route (route_schedules.route_id references routes), so   *)
(* the join with routes keeps every template.                                *)

\* INTERVAL '1 year', in days
OneYear == 365

\* CASE WHEN days_of_week IS NULL OR array_length(days_of_week, 1) IS NULL
\*      THEN ARRAY[1,2,3,4,5,6,7] ELSE days_of_week END
ViewDays(days_of_week) ==
    IF days_of_week = NullArray \/ days_of_week = {} THEN 1 .. 7 ELSE days_of_week

\* the CTE date_series: the (template, day) pairs of the Active templates
date_series(rs) ==
    {<<t, d>> \in (DOMAIN rs) \X (0 .. MaxDate + OneYear) :
        /\ rs[t].status = "Active"
        /\ d >= rs[t].start_date
        /\ d <= COALESCE(rs[t].end_date, rs[t].start_date + OneYear)
        /\ DOW(d) \in ViewDays(rs[t].days_of_week)}

\* the columns of si in a row of the LEFT JOIN that found no instance
NoInstance ==
    [id |-> NULL, standby_date |-> NULL, standby_time |-> NULL, departure_date |-> NULL,
     departure_time |-> NULL, driver_id |-> NULL, vehicle_id |-> NULL,
     status |-> "NULL", is_override |-> "NULL"]

\* the SELECT list for one row of date_series joined with si; a driver's name
\* and a vehicle's code stand for their rows, so they are the ids
OverviewRow(sb, t, d, si) ==
    LET standby_date == COALESCE(si.standby_date, d)
        departure_date == COALESCE(si.departure_date, d)
    IN  [route_schedule_id |-> t,
         schedule_date |-> d,
         standby_date |-> standby_date,
         standby_time |-> COALESCE(si.standby_time, sb.standby_time),
         departure_date |-> departure_date,
         departure_time |-> COALESCE(si.departure_time, sb.departure_time),
         driver_name |-> COALESCE(si.driver_id, sb.default_driver_id),
         vehicle_code |-> COALESCE(si.vehicle_id, sb.default_vehicle_id),
         status |-> IF si.status = "NULL" THEN "Scheduled" ELSE si.status,
         is_override |-> IF si.is_override = "NULL" THEN "FALSE" ELSE si.is_override,
         instance_id |-> si.id,
         is_cross_day_departure |-> departure_date # standby_date]

\* SELECT * FROM schedule_overview WHERE schedule_date is one of days
schedule_overview(rs, rows, days) ==
    UNION {LET si == {r \in rows : r.route_schedule_id = p[1] /\ r.schedule_date = p[2]}
           IN  IF si = {}
               THEN {OverviewRow(rs[p[1]], p[1], p[2], NoInstance)}
               ELSE {OverviewRow(rs[p[1]], p[1], p[2], r) : r \in si} :
           p \in {q \in date_series(rs) : q[2] \in days}}

----------------------------------------------------------------------------
(* detect_schedule_conflicts_enhanced *)

\* a = b on nullable operands: NULL when either side is NULL
SqlEq(a, b) == IF a = NULL \/ b = NULL THEN "NULL" ELSE IF a = b THEN "TRUE" ELSE "FALSE"

\* status IN ('Scheduled', 'Confirmed')
ConflictStatuses == {"Scheduled", "Confirmed"}

JoinOn_si1(si1, si2, col) ==
    /\ SqlEq(si1[col], si2[col]) = "TRUE"
    /\ si1.id # si2.id
    /\ SqlEq(si1.departure_date, si2.departure_date) = "TRUE"
    /\ si1.status \in ConflictStatuses

\* the ON condition of the self-join; col is driver_id or vehicle_id
JoinOn(si1, si2, col) ==
    /\ SqlEq(si1[col], si2[col]) = "TRUE"
    /\ si1.id # si2.id
    /\ SqlEq(si1.departure_date, si2.departure_date) = "TRUE"
    /\ si1.status \in ConflictStatuses
    /\ si2.status \in ConflictStatuses

\* FROM schedule_instances si1 JOIN schedule_instances si2 ON ... WHERE si1.<col> IS NOT NULL
Joined(rows, col) ==
    {p \in rows \X rows : JoinOn(p[1], p[2], col) /\ p[1][col] # NULL}

\* CASE WHEN COUNT(*) > 3 THEN 'High' WHEN COUNT(*) > 1 THEN 'Medium' ELSE 'Low' END
Severity(count) == IF count > 3 THEN "High" ELSE IF count > 1 THEN "Medium" ELSE "Low"

\* one CTE: GROUP BY si1.departure_date, si1.<col> HAVING COUNT(*) > 1, COUNT(*)
\* being the number of joined (si1, si2) rows of the group
ConflictRows(rows, col, type) ==
    LET joined == Joined(rows, col)
        key(p) == <<p[1].departure_date, p[1][col]>>
        group(k) == {p \in joined : key(p) = k}
        having == {k \in {key(p) : p \in joined} : Cardinality(group(k)) > 1}
    IN  {[conflict_date |-> k[1],
          conflict_type |-> type,
          driver_id |-> IF col = "driver_id" THEN k[2] ELSE NULL,
          vehicle_id |-> IF col = "vehicle_id" THEN k[2] ELSE NULL,
          conflicting_instances |-> {p[1].id : p \in group(k)},
          severity |-> Severity(Cardinality(group(k)))] : k \in having}

\* SELECT * FROM driver_conflicts UNION ALL SELECT * FROM vehicle_conflicts
detect_schedule_conflicts_enhanced(rows) ==
    ConflictRows(rows, "driver_id", "Driver Overlap")
        \cup ConflictRows(rows, "vehicle_id", "Vehicle Overlap")

----------------------------------------------------------------------------
(* check-near-deadline *)

MinutesPerHour == 60
MinutesPerDay == 24 * MinutesPerHour

\* const { hours_ahead = 2, ... } = await req.json()
DefaultHoursAhead == 2

\* now.toISOString().split('T')[0], as a day number
IsoDate(t) == t \div MinutesPerDay

\* new Date(now.getTime() + (hours_ahead * 60 * 60 * 1000))
deadlineThreshold(t, hours_ahead) == t + hours_ahead * MinutesPerHour

\* new Date(`${schedule.schedule_date}T${schedule.departure_time}`)
departureDateTime(schedule) ==
    schedule.schedule_date * MinutesPerDay + schedule.departure_time

\* .eq('status', 'Scheduled').gte('schedule_date', ...).lte('schedule_date', ...)
nearDeadlineSchedules(rows, t, hours_ahead) ==
    {r \in rows : /\ r.status = "Scheduled"
                  /\ r.schedule_date >= IsoDate(t)
                  /\ r.schedule_date <= IsoDate(deadlineThreshold(t, hours_ahead))}

\* the loop that keeps the schedules inside the time window
filteredSchedules(rows, t, hours_ahead) ==
    {r \in nearDeadlineSchedules(rows, t, hours_ahead) :
        /\ r.departure_time # NULL
        /\ departureDateTime(r) <= deadlineThreshold(t, hours_ahead)
        /\ departureDateTime(r) > t}

alertSeverity_lt(schedule, t) ==
    IF departureDateTime(schedule) - t < MinutesPerHour THEN "High" ELSE "Medium"

\* hoursUntilDeparture <= 1 ? 'High' : 'Medium'
alertSeverity(schedule, t) ==
    IF departureDateTime(schedule) - t <= MinutesPerHour THEN "High" ELSE "Medium"

alertData(schedule, t) ==
    [schedule_instance_id |-> schedule.id,
     alert_type |-> "Reminder",
     severity |-> alertSeverity(schedule, t),
     created_for_user |-> NULL]

\* .from('route_alerts').insert(alertData).select().single(): the stored row
InsertedAlert(data, id) ==
    [id |-> id,
     schedule_instance_id |-> data.schedule_instance_id,
     alert_type |-> data.alert_type,
     severity |-> data.severity,
     created_for_user |-> data.created_for_user]

\* a loop that gives up at the first insert that fails
RECURSIVE createNotifications_abort(_, _, _, _, _)
createNotifications_abort(todo, t, fails, alerts, notifications) ==
    IF todo = << >> \/ Head(todo).id \in fails
    THEN [route_alerts |-> alerts, notifications |-> notifications]
    ELSE LET schedule == Head(todo)
             id == Cardinality(alerts) + 1
         IN  createNotifications_abort(
                 Tail(todo), t, fails,
                 alerts \cup {InsertedAlert(alertData(schedule, t), id)},
                 Append(notifications,
                        [schedule_id |-> schedule.id, alert_id |-> id,
                         departure_time |-> schedule.departure_time,
                         minutes_until_departure |-> departureDateTime(schedule) - t]))

\* for (const schedule of filteredSchedules): insert the alert; on an insert
\* error log and continue, else push the notification.  fails: the schedules
\* whose insert the database rejects
RECURSIVE createNotifications(_, _, _, _, _)
createNotifications(todo, t, fails, alerts, notifications) ==
    IF todo = << >>
    THEN [route_alerts |-> alerts, notifications |-> notifications]
    ELSE LET schedule == Head(todo)
             id == Cardinality(alerts) + 1
         IN  IF schedule.id \in fails
             THEN createNotifications(Tail(todo), t, fails, alerts, notifications)
             ELSE createNotifications(
                      Tail(todo), t, fails,
                      alerts \cup {InsertedAlert(alertData(schedule, t), id)},
                      Append(notifications,
                             [schedule_id |-> schedule.id, alert_id |-> id,
                              departure_time |-> schedule.departure_time,
                              minutes_until_departure |-> departureDateTime(schedule) - t]))

----------------------------------------------------------------------------
(* getRouteDistance and the route distance cache.  distance_km and           *)
(* traffic_factor are in hundredths, last_updated in minutes.               *)

RouteIds == {1, 2}

\* Math.round(x / y) for x >= 0, y > 0
RoundDiv(x, y) == (2 * x + y) \div (2 * y)

\* calculateRoute: the result computed from the summary of the first route
RouteResult(summary) ==
    LET trafficTime == summary.travelTimeInSeconds
        noTrafficTime == IF summary.noTrafficTravelTimeInSeconds \in {NULL, 0}
                         THEN trafficTime
                         ELSE summary.noTrafficTravelTimeInSeconds
    IN  [distance_km |-> RoundDiv(summary.lengthInMeters, 10),
         travel_time_minutes |-> RoundDiv(trafficTime, 60),
         traffic_factor |-> RoundDiv(100 * trafficTime, noTrafficTime)]

\* const maxCacheAge = 7 * 24 * 60 * 60 * 1000
maxCacheAge == 7 * MinutesPerDay

\* route_distance_cache holds one row per (from_route_id, to_route_id)
CacheKey(row) == <<row.from_route_id, row.to_route_id>>

\* .select('*').eq('from_route_id', ...).eq('to_route_id', ...)
CacheRows(cache, fromRouteId, toRouteId) ==
    {c \in cache : c.from_route_id = fromRouteId /\ c.to_route_id = toRouteId}

\* .single(): the row, when there is exactly one
CacheHit(cache, fromRouteId, toRouteId) ==
    Cardinality(CacheRows(cache, fromRouteId, toRouteId)) = 1

Cached(cache, fromRouteId, toRouteId) ==
    CHOOSE c \in CacheRows(cache, fromRouteId, toRouteId) : TRUE

IsFresh_le(cached, t) == t - cached.last_updated <= maxCacheAge

\* cacheAge < maxCacheAge
IsFresh(cached, t) == t - cached.last_updated < maxCacheAge

ReadsCache_always(forceRefresh) == TRUE

\* if (!forceRefresh)
ReadsCache(forceRefresh) == ~forceRefresh

\* a plain insert of the row
cacheRouteDistance_insert(cache, fromRouteId, toRouteId, result, t) ==
    cache \cup {[from_route_id |-> fromRouteId,
                 to_route_id |-> toRouteId,
                 distance_km |-> result.distance_km,
                 travel_time_minutes |-> result.travel_time_minutes,
                 traffic_factor |-> result.traffic_factor,
                 last_updated |-> t]}

\* cacheRouteDistance: upsert of the row for (from, to), last_updated = new Date()
cacheRouteDistance(cache, fromRouteId, toRouteId, result, t) ==
    LET row == [from_route_id |-> fromRouteId,
                to_route_id |-> toRouteId,
                distance_km |-> result.distance_km,
                travel_time_minutes |-> result.travel_time_minutes,
                traffic_factor |-> result.traffic_factor,
                last_updated |-> t]
    IN  {c \in cache : CacheKey(c) # CacheKey(row)} \cup {row}

NoResult == [distance_km |-> NULL, travel_time_minutes |-> NULL, traffic_factor |-> NULL]

\* the values of a cached row that the function returns
CachedResult(cached) ==
    [distance_km |-> cached.distance_km,
     travel_time_minutes |-> cached.travel_time_minutes,
     traffic_factor |-> cached.traffic_factor]

\* what a call that throws leaves
Thrown(cache, message, cacheRead, apiCalled) ==
    [error |-> message, result |-> NoResult, source |-> "none",
     cache_read |-> cacheRead, api_called |-> apiCalled, cache |-> cache]

cacheWriteError_thrown(writeFails) ==
    IF writeFails THEN "Error caching route distance" ELSE "none"

\* what cacheRouteDistance lets out of its try block: the catch logs the error
\* of a failed upsert and does not throw
cacheWriteError(writeFails) == "none"

\* getRouteDistance at time t: response is what the mapping API answers when
\* it is called, writeFails whether the upsert of the cache row fails
getRouteDistance(rt, cache, t, fromRouteId, toRouteId, forceRefresh, response, writeFails) ==
    LET cacheRead == ReadsCache(forceRefresh)
        found == {fromRouteId, toRouteId} \cap DOMAIN rt
    IN  IF /\ cacheRead
           /\ CacheHit(cache, fromRouteId, toRouteId)
           /\ IsFresh(Cached(cache, fromRouteId, toRouteId), t)
        THEN [error |-> "none",
              result |-> CachedResult(Cached(cache, fromRouteId, toRouteId)),
              source |-> "cache", cache_read |-> TRUE, api_called |-> FALSE,
              cache |-> cache]
        ELSE IF Cardinality(found) # 2
        THEN Thrown(cache, "Could not find route coordinates", cacheRead, FALSE)
        ELSE IF \/ rt[fromRouteId].destination_coordinates = NULL
                \/ rt[toRouteId].origin_coordinates = NULL
        THEN Thrown(cache, "Missing route coordinates", cacheRead, FALSE)
        ELSE IF response.error # "none"
        THEN Thrown(cache, response.error, cacheRead, TRUE)
        ELSE IF cacheWriteError(writeFails) # "none"
        THEN Thrown(cache, cacheWriteError(writeFails), cacheRead, TRUE)
        ELSE [error |-> "none",
              result |-> RouteResult(response.summary),
              source |-> "api", cache_read |-> cacheRead, api_called |-> TRUE,
              cache |-> IF writeFails
                        THEN cache
                        ELSE cacheRouteDistance(cache, fromRouteId, toRouteId,
                                                RouteResult(response.summary), t)]

\* one entry of the array batchCalculateRoutes returns: the result of the
\* pair, or result null (NoResult) and the message of what getRouteDistance threw
BatchEntry(pair, r) ==
    [fromRouteId |-> pair[1], toRouteId |-> pair[2],
     result |-> IF r.error = "none" THEN r.result ELSE NoResult,
     error |-> r.error]

\* a loop that lets the first failure end the batch
RECURSIVE batchCalculateRoutes_abort(_, _, _, _, _, _, _, _, _)
batchCalculateRoutes_abort(rt, cache, t, routePairs, answers, onProgress, i, results, progress) ==
    IF i > Len(routePairs)
    THEN [results |-> results, progress |-> progress, cache |-> cache]
    ELSE LET pair == routePairs[i]
             r == getRouteDistance(rt, cache, t, pair[1], pair[2], FALSE,
                                   answers[i].response, answers[i].writeFails)
         IN  IF r.error # "none"
             THEN [results |-> results, progress |-> progress, cache |-> cache]
             ELSE batchCalculateRoutes_abort(
                      rt, r.cache, t, routePairs, answers, onProgress, i + 1,
                      Append(results, BatchEntry(pair, r)),
                      IF onProgress
                      THEN Append(progress, <<i, Len(routePairs)>>)
                      ELSE progress)

\* batchCalculateRoutes from its i-th pair on (i counts from 1): answers[i] is
\* what the mapping API and the cache write do for the i-th pair, onProgress
\* whether the callback is given; progress records the calls of the callback
RECURSIVE batchCalculateRoutes(_, _, _, _, _, _, _, _, _)
batchCalculateRoutes(rt, cache, t, routePairs, answers, onProgress, i, results, progress) ==
    IF i > Len(routePairs)
    THEN [results |-> results, progress |-> progress, cache |-> cache]
    ELSE LET pair == routePairs[i]
             r == getRouteDistance(rt, cache, t, pair[1], pair[2], FALSE,
                                   answers[i].response, answers[i].writeFails)
         IN  batchCalculateRoutes(
                 rt, r.cache, t, routePairs, answers, onProgress, i + 1,
                 Append(results, BatchEntry(pair, r)),
                 IF onProgress
                 THEN Append(progress, <<i, Len(routePairs)>>)
                 ELSE progress)

----------------------------------------------------------------------------
(* Inputs *)

\* an Active every-day template whose departure crosses midnight
BaseSchedule ==
    [status |-> "Active", days_of_week |-> NullArray, start_date |-> 0, end_date |-> NULL,
     standby_time |-> MaxTime, departure_time |-> 0,
     default_driver_id |-> 1, default_vehicle_id |-> 1]

\* a same-day template with the same default driver and vehicle
DaySchedule == [BaseSchedule EXCEPT !.standby_time = 0, !.departure_time = MaxTime]

\* the rows route_schedules may hold: BaseSchedule changed in one group of columns
ScheduleRows ==
    {[BaseSchedule EXCEPT !.status = s] : s \in ScheduleStatuses}
    \cup {[BaseSchedule EXCEPT !.days_of_week = w] : w \in {{}, {1}, {0, 1}}}
    \cup {[BaseSchedule EXCEPT !.start_date = d] : d \in Dates}
    \cup {[BaseSchedule EXCEPT !.end_date = d] : d \in Dates}
    \cup {[BaseSchedule EXCEPT !.standby_time = x, !.departure_time = y] :
            x \in Nullable(Times), y \in Nullable(Times)}
    \cup {[BaseSchedule EXCEPT !.default_driver_id = x, !.default_vehicle_id = y] :
            x \in Nullable(Drivers), y \in Nullable(Vehicles)}

InitSchedules ==
    {rs \in [TemplateIds -> ScheduleRows \cup {DaySchedule}] :
        \A t \in TemplateIds \ {1} : rs[t] = DaySchedule}

\* the rows that differ in what the generator looks at
RecurrenceRows ==
    {r \in ScheduleRows : r.standby_time = BaseSchedule.standby_time
                          /\ r.departure_time = BaseSchedule.departure_time
                          /\ r.default_driver_id = BaseSchedule.default_driver_id
                          /\ r.default_vehicle_id = BaseSchedule.default_vehicle_id}

\* what CrossDayScheduleForm sends: its schema requires the dates and times
FormArgs ==
    {CreateArgs(id, d, sd, st, dt, drv, NULL) :
        id \in TemplateIds, d \in Dates, sd \in Dates, st \in Times, dt \in Times,
        drv \in Nullable(Drivers)}

\* what any caller of the function may pass
RpcArgs ==
    {CreateArgs(id, d, sd, st, dt, drv, veh) :
        id \in TemplateIds \cup {UnknownTemplateId}, d \in Dates, sd \in Nullable(Dates),
        st \in Nullable(Times), dt \in Nullable(Times),
        drv \in Nullable(Drivers), veh \in Nullable(Vehicles)}

\* what CreateScheduleInstancePage sends: the optional times left blank
InsertArgs ==
    {[route_schedule_id |-> id, schedule_date |-> d, driver_id |-> drv, vehicle_id |-> NULL,
      standby_time |-> NULL, departure_time |-> NULL, status |-> st] :
        id \in TemplateIds, d \in Dates, drv \in {NULL, 1}, st \in InstanceStatuses}

\* a planner giving one day of a template to the other driver
PlannerArgs ==
    {CreateArgs(id, d, sd, 0, 0, 2, NULL) : id \in TemplateIds, d \in Dates, sd \in Dates}

\* p_route_schedule_ids: absent, or one template
IdArrays == {NullArray} \cup {{t} : t \in TemplateIds}

\* the (template, day) pairs of the conflict scenarios
ConflictPairs == <<<<1, 0>>, <<1, 1>>, <<2, 0>>, <<2, 1>>>>

\* how the row of pair (t, d) came about: not at all, by a create call (same-day
\* or cross-day, with or without driver and vehicle) and perhaps a later change
\* of its status, or by a direct insert
ConflictCalls(t, d) ==
    {[op |-> "none", args |-> << >>, status |-> "Scheduled"]}
    \cup {[op |-> "create", args |-> CreateArgs(t, d, d, tm[1], tm[2], dv[1], dv[2]),
           status |-> "Scheduled"] :
            tm \in {<<0, 0>>, <<MaxTime, 0>>},
            dv \in IF t = 1 THEN {<<1, 1>>, <<NULL, 1>>, <<2, NULL>>} ELSE {<<1, 1>>}}
    \cup {[op |-> "create", args |-> CreateArgs(t, d, d, tm[1], tm[2], 1, 1),
           status |-> IF t = 1 THEN "Cancelled" ELSE "Completed"] :
            tm \in {<<0, 0>>, <<MaxTime, 0>>}}
    \cup (IF t = 1
          THEN {[op |-> "insert",
                 args |-> [route_schedule_id |-> t, schedule_date |-> d, driver_id |-> 1,
                           vehicle_id |-> NULL, standby_time |-> NULL,
                           departure_time |-> NULL, status |-> "Confirmed"],
                 status |-> "Confirmed"]}
          ELSE {})

\* .update({ status: newStatus }).in('id', instanceIds)
UpdateStatus(rows, instanceIds, newStatus) ==
    {IF r.id \in instanceIds THEN [r EXCEPT !.status = newStatus] ELSE r : r \in rows}

\* the table a sequence of create calls, each perhaps followed by a change of
\* the status of its row, and direct inserts leaves
RECURSIVE ApplyCalls(_, _, _, _, _)
ApplyCalls(rs, rows, nid, calls, t) ==
    IF calls = << >>
    THEN [rows |-> rows, next_id |-> nid]
    ELSE LET c == Head(calls)
             r == IF c.op = "create"
                  THEN create_schedule_instance_with_override(rs, rows, nid, c.args, t)
                  ELSE IF c.op = "insert"
                       THEN InsertInstance(rows, nid, c.args, t)
                       ELSE [rows |-> rows, next_id |-> nid, id |-> NULL]
             updated == IF c.op = "create" /\ c.status # "Scheduled"
                        THEN UpdateStatus(r.rows, {r.id}, c.status)
                        ELSE r.rows
         IN  ApplyCalls(rs, updated, r.next_id, Tail(calls), t)

\* the (template, day) pairs of the deadline scenarios
DeadlinePairs == <<<<1, 0>>, <<2, 0>>, <<1, 1>>>>

\* standby and departure times, in minutes after midnight: 09:00 with a
\* departure at 11:00, 11:30 or 12:00, and 23:00 with a departure at 00:30
DeadlineTimes == {<<540, 660>>, <<540, 690>>, <<540, 720>>, <<1380, 30>>}

\* how the row of pair (t, d) came about: not at all, by a create call, or (for
\* template 2) by a direct insert that leaves the times blank
DeadlineCalls(t, d) ==
    {[op |-> "none", args |-> << >>, status |-> "Scheduled"]}
    \cup {[op |-> "create", args |-> CreateArgs(t, d, d, tm[1], tm[2], 1, 1),
           status |-> "Scheduled"] :
            tm \in DeadlineTimes}
    \cup (IF t = 2
          THEN {[op |-> "insert",
                 args |-> [route_schedule_id |-> t, schedule_date |-> d, driver_id |-> 1,
                           vehicle_id |-> NULL, standby_time |-> NULL,
                           departure_time |-> NULL, status |-> "Scheduled"],
                 status |-> "Scheduled"]}
          ELSE {})

\* the times at which the notifier is invoked: day 0 at 00:00, 10:00, 11:00
\* and 23:30, day 1 at 00:30
DeadlineClock == {0, 600, 660, 1410, 1470}

\* hours_ahead of the request body: absent, or 1
HoursAhead == {NULL, 1}

\* a route with its coordinates, and one that has none
RouteRows ==
    {[origin_coordinates |-> 1, destination_coordinates |-> 2],
     [origin_coordinates |-> NULL, destination_coordinates |-> NULL]}

\* the routes table: both routes, or route 1 only
RouteTables == [RouteIds -> RouteRows] \cup [{1} -> RouteRows]

\* the pairs of routes a distance is asked for, a route to itself included
RoutePairs == {<<1, 2>>, <<2, 1>>, <<1, 1>>}

\* the answers of the mapping API: an error, or the summary of a route
ApiResponses ==
    {[error |-> "TomTom API error", summary |-> << >>],
     [error |-> "none",
      summary |-> [lengthInMeters |-> 12345, travelTimeInSeconds |-> 930,
                   noTrafficTravelTimeInSeconds |-> 600]],
     [error |-> "none",
      summary |-> [lengthInMeters |-> 20004, travelTimeInSeconds |-> 1200,
                   noTrafficTravelTimeInSeconds |-> NULL]]}

\* the times of the distance scenarios: day 0, day 1, a minute before day 7,
\* day 7 and day 8
DistanceClock ==
    {0, MinutesPerDay, 7 * MinutesPerDay - 1, 7 * MinutesPerDay, 8 * MinutesPerDay}

\* the values CrossDayScheduleForm submits for template 1: the day, a same-day
\* or a cross-day pair of times, the driver left blank or set, and a status
FrameForms ==
    {[route_schedule_id |-> 1, schedule_date |-> d, standby_date |-> d,
      standby_time |-> tm[1], departure_time |-> tm[2],
      driver_id |-> drv, vehicle_id |-> NULL, status |-> st] :
        d \in {0, MaxDate}, tm \in {<<0, 0>>, <<MaxTime, 0>>}, drv \in {NULL, 2},
        st \in InstanceStatuses}

\* saveMutation: the arguments of the RPC call made for the submitted values;
\* the status of the form is not among them
saveMutationArgs(data) ==
    CreateArgs(data.route_schedule_id, data.schedule_date, data.standby_date,
               data.standby_time, data.departure_time, data.driver_id, data.vehicle_id)

\* a call of the function by user u for (template 1, day d)
FrameRpcArgs ==
    {[p_route_schedule_id |-> 1, p_schedule_date |-> d, p_standby_date |-> NULL,
      p_standby_time |-> NULL, p_departure_time |-> NULL,
      p_driver_id |-> 1, p_vehicle_id |-> 1, p_created_by |-> u] :
        d \in {0, MaxDate}, u \in {1, 2}}

\* the updates a dispatcher applies to an instance: a new status, and for a
\* trip under way or over its actual times
FrameUpdates ==
    {[status |-> st] : st \in InstanceStatuses}
    \cup {[status |-> "In Progress", actual_departure_time |-> 0],
          [status |-> "Completed", actual_departure_time |-> 0,
           actual_arrival_time |-> MaxTime]}

\* .update(updates).in('id', instanceIds)
UpdateInstances(rows, instanceIds, updates) ==
    {IF r.id \in instanceIds
     THEN [c \in DOMAIN r |-> IF c \in DOMAIN updates THEN updates[c] ELSE r[c]]
     ELSE r : r \in rows}

\* the times of the batch scenarios: day 0, when an earlier entry is fresh, and
\* day 7, when it is stale
BatchClock == {0, 7 * MinutesPerDay}

\* the arrays of pairs given to batchCalculateRoutes
BatchPairs == UNION {[1 .. n -> RoutePairs] : n \in 0 .. MaxBatch}

\* what the mapping API and the cache write do for each pair of a batch
BatchAnswers(n) == [1 .. n -> [response : ApiResponses, writeFails : BOOLEAN]]

----------------------------------------------------------------------------
(* ScheduleKanban *)

\* COLUMN_CONFIGS: the ids of the four columns
ColumnIds == {"unassigned", "assigned", "in-progress", "completed"}

\* the card made from a row of the view.  The view has no column schedule_id,
\* so the id of every card is undefined.  item is the (template, day) of the
\* row, by which a card is followed from one fetch to the next.
ScheduleCard(item) ==
    [id |-> NULL,
     item |-> <<item.route_schedule_id, item.schedule_date>>,
     departure_time |-> item.departure_time,
     driver_name |-> item.driver_name,
     vehicle_code |-> item.vehicle_code,
     status |-> item.status]

\* the queryFn of 'kanban-schedules' without a region or priority filter, the
\* view being refreshed before it is read
kanbanSchedules(rs, rows, selectedDate) ==
    {ScheduleCard(item) : item \in schedule_overview(rs, rows, {selectedDate})}

\* the filter of the column config on a fetched schedule
InColumn(config, schedule) ==
    CASE config = "unassigned" ->
            schedule.status = "Scheduled"
            /\ (schedule.driver_name = NULL \/ schedule.vehicle_code = NULL)
      [] config = "assigned" ->
            schedule.status = "Scheduled"
            /\ schedule.driver_name # NULL /\ schedule.vehicle_code # NULL
      [] config = "in-progress" -> schedule.status = "In Progress"
      [] config = "completed" -> schedule.status = "Completed"
      [] OTHER -> FALSE

\* the memo columns: the schedules each column shows
columns(schedules) == [config \in ColumnIds |-> {s \in schedules : InColumn(config, s)}]

\* handleDragEnd's statusMap
statusMap(droppableId) ==
    CASE droppableId = "unassigned" -> "Scheduled"
      [] droppableId = "assigned" -> "Confirmed"
      [] droppableId = "in-progress" -> "In Progress"
      [] droppableId = "completed" -> "Completed"

\* no drop yet
NoDrop == [seq |-> 0]

----------------------------------------------------------------------------
(* LargeScaleScheduleGrid *)

\* startOfWeek(date, { weekStartsOn: 1 }): the Monday on or before the day
startOfWeek(d) == d - ((DOW(d) + 6) % 7)

\* the options of the page size select, 25, 50, 100 and 200, in units of 25 rows
PageSizes == {1, 2, 4, 8}

\* useState(50)
DefaultPageSize == 2

\* the filters as first rendered: no status chosen, no checkbox ticked
NoFilters == [status |-> "", showOverridesOnly |-> FALSE]

\* the rows of the view the query of the grid selects, before .range(): those
\* departing in the week, matching the search term (NULL when empty, else a
\* term that is part of the route code of one template) and the filters
gridRows(rs, rows, currentWeek, searchTerm, filters) ==
    {item \in schedule_overview(rs, rows, (currentWeek - 1) .. (currentWeek + 6)) :
        /\ item.departure_date >= currentWeek
        /\ item.departure_date <= currentWeek + 6
        /\ searchTerm # NULL => item.route_schedule_id = searchTerm
        /\ filters.status # "" => item.status = filters.status
        /\ filters.showOverridesOnly => item.is_override = "TRUE"}

\* the query has run for the state g: totalCount is the count it returned
fetched(rs, rows, g) ==
    [g EXCEPT !.totalCount =
        Cardinality(gridRows(rs, rows, g.currentWeek, g.searchTerm, g.filters))]

----------------------------------------------------------------------------
(* CrossDayScheduleForm *)

\* The value of an <input type="time"> and of a TIME column in a response:
\* time is its hour and minute, seconds tells whether ":00" follows them.
\* "HH:mm", as the user types it and as the defaults are written
HHmm(t) == [time |-> t, seconds |-> FALSE]

\* "HH:mm:ss", as a TIME column of an existing instance arrives
HHmmss(t) == [time |-> t, seconds |-> TRUE]

\* JavaScript's a < b on two such strings: by code units, a proper prefix first
StringLess(a, b) == a.time < b.time \/ (a.time = b.time /\ ~a.seconds /\ b.seconds)

\* the cast of the string to the TIME parameter of the function
ToTime(s) == s.time

\* the form before it is mounted
NoForm ==
    [mounted |-> FALSE, route_schedule_id |-> NULL, schedule_date |-> NULL,
     standby_date |-> NULL, standby_time |-> HHmm(0), departure_time |-> HHmm(0),
     driver_id |-> NULL, vehicle_id |-> NULL, status |-> "Scheduled",
     isCrossDayDeparture |-> FALSE, departureDate |-> NULL]

\* useForm's defaultValues: standby '19:00' is the late time of day, departure
\* '06:00' the early one; useState(false), useState('') for the preview
defaultValues(routeScheduleId, scheduleDate) ==
    [NoForm EXCEPT !.mounted = TRUE,
                   !.route_schedule_id = routeScheduleId,
                   !.schedule_date = scheduleDate,
                   !.standby_date = scheduleDate,
                   !.standby_time = HHmm(MaxTime),
                   !.departure_time = HHmm(0)]

\* reset({...}) with the columns of existingInstance
resetValues(f, existingInstance) ==
    [f EXCEPT !.route_schedule_id = existingInstance.route_schedule_id,
              !.schedule_date = existingInstance.schedule_date,
              !.standby_date = COALESCE(existingInstance.standby_date,
                                        existingInstance.schedule_date),
              !.standby_time = IF existingInstance.standby_time = NULL
                               THEN HHmm(MaxTime)
                               ELSE HHmmss(existingInstance.standby_time),
              !.departure_time = IF existingInstance.departure_time = NULL
                                 THEN HHmm(0)
                                 ELSE HHmmss(existingInstance.departure_time),
              !.driver_id = existingInstance.driver_id,
              !.vehicle_id = existingInstance.vehicle_id,
              !.status = existingInstance.status]

\* the effect on the watched standby_date, standby_time and departure_time;
\* the time strings of the model are never empty
previewEffect(f) ==
    IF f.standby_date # NULL
    THEN LET isCrossDay == StringLess(f.departure_time, f.standby_time)
         IN  [f EXCEPT !.isCrossDayDeparture = isCrossDay,
                       !.departureDate = IF isCrossDay THEN f.standby_date + 1
                                         ELSE f.standby_date]
    ELSE f

\* the values handleSubmit passes to onSubmit, the time strings as the
\* function's TIME parameters receive them
submittedValues(f) ==
    [route_schedule_id |-> f.route_schedule_id, schedule_date |-> f.schedule_date,
     standby_date |-> f.standby_date,
     standby_time |-> ToTime(f.standby_time), departure_time |-> ToTime(f.departure_time),
     driver_id |-> f.driver_id, vehicle_id |-> f.vehicle_id, status |-> f.status]

----------------------------------------------------------------------------
(* State machine *)

NoCall == [seq |-> 0, op |-> "none", args |-> << >>, error |-> "none", id |-> NULL]

NoDetection == [seq |-> 0, rows |-> {}]

NoCheck == [seq |-> 0]

\* no call yet; computed: the results computed through the mapping API and
\* stored, the latest of each pair
NoDistance == [seq |-> 0, computed |-> {}]

\* the record of a computation for (fromRouteId, toRouteId) stored at time t
Computation(fromRouteId, toRouteId, result, t) ==
    [fromRouteId |-> fromRouteId, toRouteId |-> toRouteId, result |-> result, at |-> t]

NoBatch == [seq |-> 0]

\* the Kanban board and the grid before they are mounted
NoBoard == [mounted |-> FALSE, selectedDate |-> NULL, schedules |-> {}, last |-> NoDrop]
NoGrid ==
    [mounted |-> FALSE, currentWeek |-> 0, searchTerm |-> NULL, filters |-> NoFilters,
     pageSize |-> DefaultPageSize, currentPage |-> 0, totalCount |-> 0]

\* no schedule, and the routes and the cache an earlier successful call for
\* (1, 2) at time 0 may have left
InitDistance ==
    /\ route_schedules = [t \in TemplateIds |-> IF t = 1 THEN BaseSchedule ELSE DaySchedule]
    /\ schedule_instances = {}
    /\ next_id = 1
    /\ writes = 0
    /\ ops = {}
    /\ last_call = NoCall
    /\ bulk = [p \in BulkProcs |-> IdleRun]
    /\ conflicts = NoDetection
    /\ now = 0
    /\ route_alerts = {}
    /\ audit_logs = << >>
    /\ last_check = NoCheck
    /\ routes \in RouteTables
    /\ \E earlier \in {{}} \cup {{r} : r \in {r \in ApiResponses : r.error = "none"}} :
          /\ route_distance_cache =
                IF earlier = {}
                THEN {}
                ELSE cacheRouteDistance({}, 1, 2,
                         RouteResult((CHOOSE r \in earlier : TRUE).summary), 0)
          /\ last_distance =
                [NoDistance EXCEPT !.computed =
                    {Computation(1, 2, RouteResult(r.summary), 0) : r \in earlier}]
    /\ last_batch = NoBatch
    /\ form = NoForm
    /\ board = NoBoard
    /\ grid = NoGrid

\* nothing detected, no alert, no cached distance
InitIdle ==
    /\ conflicts = NoDetection
    /\ now = 0
    /\ route_alerts = {}
    /\ audit_logs = << >>
    /\ last_check = NoCheck
    /\ routes = << >>
    /\ route_distance_cache = {}
    /\ last_distance = NoDistance
    /\ last_batch = NoBatch
    /\ form = NoForm
    /\ board = NoBoard
    /\ grid = NoGrid

InitCommon ==
    /\ InitIdle
    /\ schedule_instances = {}
    /\ next_id = 1
    /\ writes = 0
    /\ ops = {}
    /\ last_call = NoCall
    /\ bulk = [p \in BulkProcs |-> IdleRun]

Init ==
    /\ route_schedules \in {rs \in InitSchedules : rs[1] = BaseSchedule}
    /\ InitCommon

InitBulk ==
    /\ route_schedules \in {rs \in InitSchedules : rs[1] \in RecurrenceRows}
    /\ InitCommon

\* an empty table, or the table one run of the generator over all dates left
InitResolve ==
    /\ InitIdle
    /\ route_schedules \in InitSchedules
    /\ \E g \in {[rows |-> {}, next_id |-> 1, v_count |-> 0]}
               \cup {generate_schedule_instances_bulk(route_schedules, {}, 1, 0, MaxDate,
                                                      NullArray, o, 0) :
                        o \in Orders(SelectedSchedules(route_schedules, 0, MaxDate, NullArray))} :
          /\ schedule_instances = g.rows
          /\ next_id = g.next_id
          /\ writes = g.v_count
    /\ ops = {}
    /\ last_call = NoCall
    /\ bulk = [p \in BulkProcs |-> IdleRun]

\* the tables create calls and direct inserts for up to four pairs leave
InitConflicts ==
    /\ InitIdle
    /\ route_schedules = [t \in TemplateIds |-> IF t = 1 THEN BaseSchedule ELSE DaySchedule]
    /\ \E plan \in [DOMAIN ConflictPairs ->
                       UNION {ConflictCalls(ConflictPairs[i][1], ConflictPairs[i][2]) :
                                i \in DOMAIN ConflictPairs}] :
          /\ \A i \in DOMAIN ConflictPairs :
                plan[i] \in ConflictCalls(ConflictPairs[i][1], ConflictPairs[i][2])
          /\ LET g == ApplyCalls(route_schedules, {}, 1, plan, 0)
             IN  /\ schedule_instances = g.rows
                 /\ next_id = g.next_id
                 /\ writes = Cardinality(g.rows)
    /\ ops = {}
    /\ last_call = NoCall
    /\ bulk = [p \in BulkProcs |-> IdleRun]

\* the tables create calls and direct inserts for up to three pairs leave,
\* at midnight of day 0
InitDeadline ==
    /\ InitIdle
    /\ route_schedules = [t \in TemplateIds |-> IF t = 1 THEN BaseSchedule ELSE DaySchedule]
    /\ \E plan \in [DOMAIN DeadlinePairs ->
                       UNION {DeadlineCalls(DeadlinePairs[i][1], DeadlinePairs[i][2]) :
                                i \in DOMAIN DeadlinePairs}] :
          /\ \A i \in DOMAIN DeadlinePairs :
                plan[i] \in DeadlineCalls(DeadlinePairs[i][1], DeadlinePairs[i][2])
          /\ LET g == ApplyCalls(route_schedules, {}, 1, plan, 0)
             IN  /\ schedule_instances = g.rows
                 /\ next_id = g.next_id
                 /\ writes = Cardinality(g.rows)
    /\ ops = {}
    /\ last_call = NoCall
    /\ bulk = [p \in BulkProcs |-> IdleRun]

\* the next session of S issues its request
Ready(S) == S \ ops # {}

Request(S) ==
    /\ Ready(S)
    /\ ops' = ops \cup {CHOOSE c \in S \ ops : \A c2 \in S \ ops : c <= c2}

\* one call of create_schedule_instance_with_override with arguments a
Call(a) ==
    LET r == create_schedule_instance_with_override(route_schedules, schedule_instances,
                                                    next_id, a, now)
    IN  /\ schedule_instances' = r.rows
        /\ next_id' = r.next_id
        /\ writes' = IF r.error = "none" THEN writes + 1 ELSE writes
        /\ last_call' = [seq |-> last_call.seq + 1, op |-> "create", args |-> a,
                         error |-> r.error, id |-> r.id]

\* CrossDayScheduleForm.saveMutation
SaveMutation(a, S) ==
    /\ Request(S)
    /\ Call(a)
    /\ UNCHANGED <<route_schedules, bulk, conflicts, now, alertVars, distanceVars, uiVars>>

\* a call of the function through the RPC interface with any arguments
RpcCreate(a, S) ==
    /\ Request(S)
    /\ Call(a)
    /\ UNCHANGED <<route_schedules, bulk, conflicts, now, alertVars, distanceVars, uiVars>>

\* CreateScheduleInstancePage.createMutation
CreateMutation(d, S) ==
    LET r == InsertInstance(schedule_instances, next_id, d, now)
    IN  /\ Request(S)
        /\ schedule_instances' = r.rows
        /\ next_id' = r.next_id
        /\ writes' = IF r.error = "none" THEN writes + 1 ELSE writes
        /\ last_call' = [seq |-> last_call.seq + 1, op |-> "insert", args |-> d,
                         error |-> r.error, id |-> r.id]
        /\ UNCHANGED <<route_schedules, bulk, conflicts, now, alertVars, distanceVars, uiVars>>

\* RETURN v_count: the run is over; what it leaves is recorded
Settle(b, rows, w) ==
    IF b.pc = "return" THEN [b EXCEPT !.pc = "done", !.after = rows, !.writes1 = w] ELSE b

\* the call of generate_schedule_instances_bulk up to its first NOT EXISTS test
Begin(p, s, e, ids, order) ==
    /\ bulk[p].pc = "idle"
    /\ \A q \in BulkProcs : q < p => bulk[q].pc # "idle"
    /\ bulk' = [bulk EXCEPT ![p] =
                  Settle(Seek(route_schedules,
                              [IdleRun EXCEPT !.p_start_date = s, !.p_end_date = e,
                                              !.p_route_schedule_ids = ids, !.todo = order,
                                              !.pred = {q \in BulkProcs : bulk[q].pc = "done"},
                                              !.before = schedule_instances,
                                              !.writes0 = writes]),
                         schedule_instances, writes)]
    /\ UNCHANGED <<route_schedules, schedule_instances, next_id, writes, last_call>>
    /\ UNCHANGED <<conflicts, now, alertVars, distanceVars, uiVars>>

BulkStart(p, s, e, ids, S) ==
    /\ Request(S)
    /\ \E order \in Orders(SelectedSchedules(route_schedules, s, e, ids)) :
          Begin(p, s, e, ids, order)

\* IF NOT EXISTS (...) for the current template and day
BulkCheck(p) ==
    LET b == bulk[p]
    IN  /\ b.pc = "check"
        /\ bulk' = [bulk EXCEPT ![p] =
                      IF NotExists(schedule_instances, b.v_route_schedule, b.v_date_cursor)
                      THEN [b EXCEPT !.pc = "create"]
                      ELSE Settle(NextDay(route_schedules, b), schedule_instances, writes)]
        /\ UNCHANGED <<route_schedules, schedule_instances, next_id, writes, ops, last_call>>
        /\ UNCHANGED <<conflicts, now, alertVars, distanceVars, uiVars>>

\* PERFORM create_schedule_instance_with_override(...); v_count := v_count + 1
BulkCreate(p) ==
    LET b == bulk[p]
    IN  /\ b.pc = "create"
        /\ Call(BulkCreateArgs(route_schedules, b.v_route_schedule, b.v_date_cursor))
        /\ bulk' = [bulk EXCEPT ![p] =
                      Settle(NextDay(route_schedules, [b EXCEPT !.pc = "check",
                                                                !.v_count = b.v_count + 1]),
                             schedule_instances', writes')]
        /\ UNCHANGED <<route_schedules, ops, conflicts, now, alertVars, distanceVars, uiVars>>

\* LargeScaleScheduleGrid.bulkUpdateMutation with updates = {status: newStatus}
BulkUpdateStatus(instanceIds, newStatus, S) ==
    /\ Request(S)
    /\ schedule_instances' = UpdateStatus(schedule_instances, instanceIds, newStatus)
    /\ UNCHANGED <<route_schedules, next_id, writes, last_call, bulk>>
    /\ UNCHANGED <<conflicts, now, alertVars, distanceVars, uiVars>>

\* LargeScaleScheduleGrid.bulkUpdateMutation with any updates
BulkUpdateMutation(instanceIds, updates, S) ==
    /\ Request(S)
    /\ schedule_instances' = UpdateInstances(schedule_instances, instanceIds, updates)
    /\ UNCHANGED <<route_schedules, next_id, writes, last_call, bulk>>
    /\ UNCHANGED <<conflicts, now, alertVars, distanceVars, uiVars>>

\* CrossDayScheduleForm.onSubmit: saveMutation for the submitted values
SubmitForm(data, S) ==
    LET a == saveMutationArgs(data)
        r == create_schedule_instance_with_override(route_schedules, schedule_instances,
                                                    next_id, a, now)
    IN  /\ Request(S)
        /\ schedule_instances' = r.rows
        /\ next_id' = r.next_id
        /\ writes' = IF r.error = "none" THEN writes + 1 ELSE writes
        /\ last_call' = [seq |-> last_call.seq + 1, op |-> "create", args |-> a,
                         error |-> r.error, id |-> r.id, form |-> data]
        /\ UNCHANGED <<route_schedules, bulk, conflicts, now, alertVars, distanceVars, uiVars>>

\* SELECT * FROM detect_schedule_conflicts_enhanced()
DetectConflicts(S) ==
    /\ Request(S)
    /\ conflicts' = [seq |-> conflicts.seq + 1,
                     rows |-> detect_schedule_conflicts_enhanced(schedule_instances)]
    /\ UNCHANGED <<route_schedules, schedule_instances, next_id, writes, last_call, bulk>>
    /\ UNCHANGED <<now, alertVars, distanceVars, uiVars>>

\* time passes
Tick(clock) ==
    /\ \E t \in clock : t > now /\ now' = t
    /\ UNCHANGED <<route_schedules, schedule_instances, next_id, writes, ops, last_call, bulk>>
    /\ UNCHANGED <<conflicts, alertVars, distanceVars, uiVars>>

\* one invocation of check-near-deadline: hours is the hours_ahead of the
\* request (NULL when absent), order the order in which the query returns the
\* rows, fails the schedules whose alert insert fails
CheckNearDeadline(hours, order, fails, S) ==
    LET hours_ahead == COALESCE(hours, DefaultHoursAhead)
        checked == nearDeadlineSchedules(schedule_instances, now, hours_ahead)
        r == createNotifications(order, now, fails, route_alerts, << >>)
    IN  /\ Request(S)
        /\ route_alerts' = r.route_alerts
        /\ audit_logs' =
              Append(audit_logs,
                     [table_name |-> "schedule_instances",
                      record_id |-> "deadline_check",
                      operation |-> "SELECT",
                      new_values |-> [check_type |-> "near_deadline",
                                      hours_ahead |-> hours_ahead,
                                      schedules_found |-> Len(order),
                                      notifications_created |-> Len(r.notifications)]])
        /\ last_check' =
              [seq |-> last_check.seq + 1,
               now |-> now,
               hours |-> hours,
               hours_ahead |-> hours_ahead,
               filtered |-> {order[i].id : i \in DOMAIN order},
               failed |-> fails,
               status |-> 200,
               success |-> TRUE,
               schedules_checked |-> Cardinality(checked),
               schedules_near_deadline |-> Len(order),
               notifications_created |-> Len(r.notifications),
               notifications |-> r.notifications]
        /\ UNCHANGED <<route_schedules, schedule_instances, next_id, writes, last_call, bulk>>
        /\ UNCHANGED <<conflicts, now, distanceVars, uiVars>>

\* one call of getRouteDistance (useRouteDistance, useRefreshRouteDistance)
GetRouteDistance(pair, forceRefresh, response, writeFails, S) ==
    LET r == getRouteDistance(routes, route_distance_cache, now, pair[1], pair[2],
                              forceRefresh, response, writeFails)
    IN  /\ Request(S)
        /\ route_distance_cache' = r.cache
        /\ last_distance' =
              [seq |-> last_distance.seq + 1,
               fromRouteId |-> pair[1], toRouteId |-> pair[2],
               forceRefresh |-> forceRefresh,
               response |-> response, writeFails |-> writeFails,
               before |-> CacheRows(route_distance_cache, pair[1], pair[2]),
               error |-> r.error, result |-> r.result, source |-> r.source,
               cache_read |-> r.cache_read, api_called |-> r.api_called,
               computed |->
                   IF r.source = "api" /\ ~writeFails
                   THEN {c \in last_distance.computed :
                            <<c.fromRouteId, c.toRouteId>> # pair}
                        \cup {Computation(pair[1], pair[2], r.result, now)}
                   ELSE last_distance.computed]
        /\ UNCHANGED <<route_schedules, schedule_instances, next_id, writes, last_call, bulk>>
        /\ UNCHANGED <<conflicts, now, alertVars, routes, last_batch, uiVars>>

\* one call of batchCalculateRoutes (useBatchCalculateRoutes)
BatchCalculateRoutes(routePairs, answers, onProgress, S) ==
    LET r == batchCalculateRoutes(routes, route_distance_cache, now, routePairs, answers,
                                  onProgress, 1, << >>, << >>)
    IN  /\ Request(S)
        /\ route_distance_cache' = r.cache
        /\ last_batch' =
              [seq |-> last_batch.seq + 1,
               routePairs |-> routePairs, answers |-> answers, onProgress |-> onProgress,
               before |-> route_distance_cache,
               results |-> r.results, progress |-> r.progress]
        /\ UNCHANGED <<route_schedules, schedule_instances, next_id, writes, last_call, bulk>>
        /\ UNCHANGED <<conflicts, now, alertVars, routes, last_distance, uiVars>>

\* CrossDayScheduleForm is mounted for scheduleDate: the first render with
\* the default values, the reset when an existing instance is given (a set of
\* at most one row), and the preview effect on the values that result
MountForm(routeScheduleId, scheduleDate, existingInstance) ==
    /\ ~form.mounted
    /\ form' = previewEffect(
                  IF existingInstance = {}
                  THEN previewEffect(defaultValues(routeScheduleId, scheduleDate))
                  ELSE resetValues(previewEffect(defaultValues(routeScheduleId,
                                                               scheduleDate)),
                                   CHOOSE r \in existingInstance : TRUE))
    /\ UNCHANGED <<route_schedules, schedule_instances, next_id, writes, ops, last_call>>
    /\ UNCHANGED <<bulk, conflicts, now, alertVars, distanceVars, board, grid>>

\* the user edits one of the watched inputs (the date may be cleared, a time
\* is typed as HH:mm), and the preview effect runs
ChangeValue(field, value) ==
    /\ form.mounted
    /\ form' = previewEffect([form EXCEPT ![field] = value])
    /\ form' # form
    /\ UNCHANGED <<route_schedules, schedule_instances, next_id, writes, ops, last_call>>
    /\ UNCHANGED <<bulk, conflicts, now, alertVars, distanceVars, board, grid>>

\* the form is closed (onSuccess, onCancel)
UnmountForm ==
    /\ form.mounted
    /\ form' = NoForm
    /\ UNCHANGED <<route_schedules, schedule_instances, next_id, writes, ops, last_call>>
    /\ UNCHANGED <<bulk, conflicts, now, alertVars, distanceVars, board, grid>>

\* ScheduleKanban is mounted, or another date is selected: the schedules of
\* the date are fetched
SelectDate(selectedDate) ==
    /\ board' = [mounted |-> TRUE, selectedDate |-> selectedDate,
                 schedules |-> kanbanSchedules(route_schedules, schedule_instances,
                                               selectedDate),
                 last |-> board.last]
    /\ board' # board
    /\ UNCHANGED <<route_schedules, schedule_instances, next_id, writes, ops, last_call>>
    /\ UNCHANGED <<bulk, conflicts, now, alertVars, distanceVars, form, grid>>

\* handleDragEnd for a card of column source dropped outside every column
\* (destination "NULL") or on column destination, at its own index or another;
\* then updateStatusMutation and, the query being invalidated, the refetch
DragEnd(schedule, source, destination, sameIndex, S) ==
    LET dropped == destination # "NULL" /\ ~(destination = source /\ sameIndex)
        rows == IF dropped
                THEN UpdateStatus(schedule_instances, {schedule.id}, statusMap(destination))
                ELSE schedule_instances
    IN  /\ board.mounted
        /\ schedule \in columns(board.schedules)[source]
        /\ Request(S)
        /\ schedule_instances' = rows
        /\ board' = IF dropped
                    THEN [board EXCEPT
                            !.schedules = kanbanSchedules(route_schedules, rows,
                                                          board.selectedDate),
                            !.last = [seq |-> board.last.seq + 1, schedule |-> schedule,
                                      source |-> source, destination |-> destination]]
                    ELSE board
        /\ UNCHANGED <<route_schedules, next_id, writes, last_call, bulk>>
        /\ UNCHANGED <<conflicts, now, alertVars, distanceVars, form, grid>>

\* what every handler of the grid leaves alone
GridOnly ==
    /\ UNCHANGED <<route_schedules, schedule_instances, next_id, writes, ops, last_call>>
    /\ UNCHANGED <<bulk, conflicts, now, alertVars, distanceVars, form, board>>

\* LargeScaleScheduleGrid is mounted: the week of today, page 0, first fetch
MountGrid ==
    /\ ~grid.mounted
    /\ grid' = fetched(route_schedules, schedule_instances,
                       [NoGrid EXCEPT !.mounted = TRUE,
                                      !.currentWeek = startOfWeek(now \div MinutesPerDay)])
    /\ GridOnly

\* handlePreviousWeek (weeks = -1), handleNextWeek (weeks = 1)
MoveWeek(weeks) ==
    /\ grid.mounted
    /\ grid.currentWeek + 7 * weeks >= startOfWeek(0) - 7 * MaxWeek
    /\ grid.currentWeek + 7 * weeks <= startOfWeek(0) + 7 * MaxWeek
    /\ grid' = fetched(route_schedules, schedule_instances,
                       [grid EXCEPT !.currentWeek = grid.currentWeek + 7 * weeks,
                                    !.currentPage = 0])
    /\ GridOnly

\* handleToday
Today ==
    /\ grid.mounted
    /\ grid' = fetched(route_schedules, schedule_instances,
                       [grid EXCEPT !.currentWeek = startOfWeek(now \div MinutesPerDay),
                                    !.currentPage = 0])
    /\ grid' # grid
    /\ GridOnly

\* onChange of the search input
SetSearchTerm(searchTerm) ==
    /\ grid.mounted
    /\ grid' = fetched(route_schedules, schedule_instances,
                       [grid EXCEPT !.searchTerm = searchTerm])
    /\ grid' # grid
    /\ GridOnly

\* onChange of the status select and of the "Overrides only" checkbox
SetFilters(filter, value) ==
    /\ grid.mounted
    /\ grid' = fetched(route_schedules, schedule_instances,
                       [grid EXCEPT !.filters[filter] = value])
    /\ grid' # grid
    /\ GridOnly

\* onChange of the page size select
SetPageSize(pageSize) ==
    /\ grid.mounted
    /\ grid' = fetched(route_schedules, schedule_instances,
                       [grid EXCEPT !.pageSize = pageSize, !.currentPage = 0])
    /\ grid' # grid
    /\ GridOnly

\* the Previous button, disabled on page 0
PreviousPage ==
    /\ grid.mounted
    /\ grid.currentPage # 0
    /\ grid' = fetched(route_schedules, schedule_instances,
                       [grid EXCEPT !.currentPage = GREATEST(0, grid.currentPage - 1)])
    /\ GridOnly

\* the Next button, disabled on the last page of the count last fetched
NextPage ==
    /\ grid.mounted
    /\ ~((grid.currentPage + 1) * grid.pageSize >= grid.totalCount)
    /\ grid' = fetched(route_schedules, schedule_instances,
                       [grid EXCEPT !.currentPage = grid.currentPage + 1])
    /\ GridOnly

Next ==
    \/ Ready(Sessions) /\ \E a \in FormArgs : SaveMutation(a, Sessions)
    \/ Ready(Sessions) /\ \E d \in InsertArgs : CreateMutation(d, Sessions)
    \/ Ready(Sessions) /\ \E p \in BulkProcs, s \in Dates, e \in Dates, ids \in IdArrays :
          BulkStart(p, s, e, ids, Sessions)
    \/ \E p \in BulkProcs : BulkCheck(p)
    \/ \E p \in BulkProcs : BulkCreate(p)

Spec == Init /\ [][Next]_vars

NextResolve == Ready(Caller) /\ \E a \in RpcArgs : RpcCreate(a, Caller)

NextBulk ==
    \/ Ready(Sessions) /\ \E a \in PlannerArgs : SaveMutation(a, Sessions)
    \/ Ready(Sessions) /\ \E p \in BulkProcs, s \in Dates, e \in Dates, ids \in IdArrays :
          BulkStart(p, s, e, ids, Sessions)
    \/ \E p \in BulkProcs : BulkCheck(p)
    \/ \E p \in BulkProcs : BulkCreate(p)

SpecBulk == InitBulk /\ [][NextBulk]_vars

SpecResolve == InitResolve /\ [][NextResolve]_vars

NextConflicts ==
    \/ Ready(Sessions) /\ \E r \in schedule_instances, st \in InstanceStatuses :
          BulkUpdateStatus({r.id}, st, Sessions)
    \/ Ready(Sessions) /\ DetectConflicts(Sessions)

SpecConflicts == InitConflicts /\ [][NextConflicts]_vars

NextDeadline ==
    \/ Tick(DeadlineClock)
    \/ Ready(Sessions) /\ \E r \in schedule_instances, st \in InstanceStatuses :
          BulkUpdateStatus({r.id}, st, Sessions)
    \/ Ready(Sessions) /\ \E hours \in HoursAhead :
          \E order \in Orders(filteredSchedules(schedule_instances, now,
                                                COALESCE(hours, DefaultHoursAhead))) :
             \E fails \in SUBSET {order[i].id : i \in DOMAIN order} :
                CheckNearDeadline(hours, order, fails, Sessions)

SpecDeadline == InitDeadline /\ [][NextDeadline]_vars

NextDistance ==
    \/ Tick(DistanceClock)
    \/ Ready(Sessions) /\ \E pair \in RoutePairs, forceRefresh \in BOOLEAN,
                              response \in ApiResponses, writeFails \in BOOLEAN :
          GetRouteDistance(pair, forceRefresh, response, writeFails, Sessions)

SpecDistance == InitDistance /\ [][NextDistance]_vars

NextBatch ==
    \/ Tick(BatchClock)
    \/ Ready(Caller) /\ \E routePairs \in BatchPairs, onProgress \in BOOLEAN :
          \E answers \in BatchAnswers(Len(routePairs)) :
             BatchCalculateRoutes(routePairs, answers, onProgress, Caller)

SpecBatch == InitDistance /\ [][NextBatch]_vars

\* an empty table, or the instances calls by user 1 at time 0 left
InitFrame ==
    /\ InitIdle
    /\ route_schedules = [t \in TemplateIds |-> IF t = 1 THEN BaseSchedule ELSE DaySchedule]
    /\ \E first \in SUBSET {a \in FrameRpcArgs : a.p_created_by = 1} :
          \E order \in Orders(first) :
             LET g == ApplyCalls(route_schedules, {}, 1,
                                 [i \in DOMAIN order |->
                                     [op |-> "create", args |-> order[i],
                                      status |-> "Scheduled"]], 0)
             IN  /\ schedule_instances = g.rows
                 /\ next_id = g.next_id
                 /\ writes = Cardinality(g.rows)
    /\ ops = {}
    /\ last_call = NoCall
    /\ bulk = [p \in BulkProcs |-> IdleRun]

NextFrame ==
    \/ Tick({1})
    \/ Ready(Sessions) /\ \E r \in schedule_instances, updates \in FrameUpdates :
          BulkUpdateMutation({r.id}, updates, Sessions)
    \/ Ready(Sessions) /\ \E data \in FrameForms : SubmitForm(data, Sessions)
    \/ Ready(Sessions) /\ \E a \in FrameRpcArgs : RpcCreate(a, Sessions)

SpecFrame == InitFrame /\ [][NextFrame]_vars

\* the form over the instances of InitFrame: opened for a new or an existing
\* instance, edited, submitted once its required values are there, closed
NextForm ==
    \/ \E d \in Dates : MountForm(1, d, {})
    \/ \E r \in schedule_instances : MountForm(r.route_schedule_id, r.schedule_date, {r})
    \/ \E d \in Dates \cup {NULL} : ChangeValue("standby_date", d)
    \/ \E t \in Times : ChangeValue("standby_time", HHmm(t))
    \/ \E t \in Times : ChangeValue("departure_time", HHmm(t))
    \/ Ready(Caller) /\ form.mounted /\ form.standby_date # NULL
          /\ SubmitForm(submittedValues(form), Caller)
    \/ UnmountForm

SpecForm == InitFrame /\ [][NextForm]_vars

\* template 1 with or without a default driver and vehicle, and the instances
\* some calls of the function left, which a dispatcher may move on
InitBoard ==
    /\ InitIdle
    /\ route_schedules \in
          {rs \in InitSchedules :
              /\ rs[1].status = "Active" /\ rs[1].days_of_week = NullArray
              /\ rs[1].start_date = 0 /\ rs[1].end_date = NULL
              /\ rs[1].standby_time = MaxTime /\ rs[1].departure_time = 0}
    /\ \E first \in SUBSET {a \in FrameRpcArgs : a.p_created_by = 1} :
          \E order \in Orders(first) :
             LET g == ApplyCalls(route_schedules, {}, 1,
                                 [i \in DOMAIN order |->
                                     [op |-> "create", args |-> order[i],
                                      status |-> "Scheduled"]], 0)
             IN  /\ schedule_instances = g.rows
                 /\ next_id = g.next_id
                 /\ writes = Cardinality(g.rows)
    /\ ops = {}
    /\ last_call = NoCall
    /\ bulk = [p \in BulkProcs |-> IdleRun]

NextBoard ==
    \/ \E d \in Dates : SelectDate(d)
    \/ \E source \in ColumnIds, destination \in ColumnIds \cup {"NULL"}, sameIndex \in BOOLEAN :
          \E schedule \in columns(board.schedules)[source] :
             DragEnd(schedule, source, destination, sameIndex, Sessions)
    \/ Ready(Sessions) /\ \E r \in schedule_instances, st \in InstanceStatuses :
          BulkUpdateStatus({r.id}, st, Sessions)

SpecBoard == InitBoard /\ [][NextBoard]_vars

\* the grid over the instances of InitFrame, read by one user
NextGrid ==
    \/ MountGrid
    \/ \E weeks \in {-1, 1} : MoveWeek(weeks)
    \/ Today
    \/ \E searchTerm \in Nullable(TemplateIds) : SetSearchTerm(searchTerm)
    \/ \E st \in {"", "Scheduled", "Completed"} : SetFilters("status", st)
    \/ \E b \in BOOLEAN : SetFilters("showOverridesOnly", b)
    \/ \E pageSize \in PageSizes : SetPageSize(pageSize)
    \/ PreviousPage
    \/ NextPage

SpecGrid == InitFrame /\ [][NextGrid]_vars

----------------------------------------------------------------------------
(* Properties *)

RowsOf(rows, id, d) == {r \in rows : r.route_schedule_id = id /\ r.schedule_date = d}

\* the last operation was a successful create_schedule_instance_with_override
Created == last_call.op = "create" /\ last_call.error = "none"

\* the row that call stored
Stored == CHOOSE r \in schedule_instances : r.id = last_call.id

\* the template that call resolved against
Defaults == route_schedules[last_call.args.p_route_schedule_id]

\* this step is a call of create_schedule_instance_with_override
CreateStep == last_call'.seq = last_call.seq + 1 /\ last_call'.op = "create"

Elements(arr) == {arr[i] : i \in DOMAIN arr}

\* the cross-day rule as the specification words it
CrossDay(standby_date, standby_time, departure_time) ==
    IF standby_time # NULL /\ departure_time # NULL /\ departure_time < standby_time
    THEN standby_date + 1
    ELSE standby_date

\* C1: schedule_instances never holds two rows for one
\* (route_schedule_id, schedule_date) pair, whatever create calls, bulk runs
\* and direct inserts are interleaved.
OneRowPerPair ==
    \A r1, r2 \in schedule_instances :
        (r1.route_schedule_id = r2.route_schedule_id /\ r1.schedule_date = r2.schedule_date)
            => r1 = r2

\* two bulk runs both resolved one pair and one row is left
TwoResolutionsOneRow ==
    /\ bulk[1].v_count = 1
    /\ bulk[2].v_count = 1
    /\ writes = 2
    /\ Cardinality(schedule_instances) = 1

\* C2: the row stored by a successful create call has departure_date =
\* standby_date + 1 when its departure_time is earlier than its standby_time
\* and departure_date = standby_date otherwise (equal times included), its
\* standby_date being the requested one or else the schedule date; and
\* calculate_departure_date computes that rule for all dates and times.
CrossDayRule ==
    /\ \A sd \in Dates, st \in Times, dt \in Times :
          calculate_departure_date(sd, st, dt) = (IF dt < st THEN sd + 1 ELSE sd)
    /\ Created =>
          /\ Stored.standby_date =
                COALESCE(last_call.args.p_standby_date, last_call.args.p_schedule_date)
          /\ Stored.departure_date =
                CrossDay(Stored.standby_date, Stored.standby_time, Stored.departure_time)

\* a stored departure that crosses midnight
CrossDayStored ==
    /\ Created
    /\ Stored.standby_time # NULL
    /\ Stored.departure_time # NULL
    /\ Stored.departure_time < Stored.standby_time
    /\ Stored.departure_date = Stored.standby_date + 1

\* C3: a successful create call leaves exactly one row for its pair, returns
\* that row's id, keeps the id of a row that existed before without adding a
\* row, adds one row otherwise, and changes no row of another pair.
UpsertFrame ==
    [][(CreateStep /\ last_call'.error = "none") =>
        LET a == last_call'.args
            old == RowsOf(schedule_instances, a.p_route_schedule_id, a.p_schedule_date)
            new == RowsOf(schedule_instances', a.p_route_schedule_id, a.p_schedule_date)
        IN  /\ Cardinality(new) = 1
            /\ \A r \in new : r.id = last_call'.id
            /\ schedule_instances' \ new = schedule_instances \ old
            /\ old # {} => /\ \A r \in old : r.id = last_call'.id
                           /\ Cardinality(schedule_instances') = Cardinality(schedule_instances)
            /\ old = {} => Cardinality(schedule_instances') = Cardinality(schedule_instances) + 1
      ]_vars

\* a create call that updated the row an earlier operation had written,
\* next to a row of another pair
UpdatedInPlace ==
    /\ Created
    /\ last_call.id < next_id - 1
    /\ writes > Cardinality(schedule_instances)
    /\ Cardinality(schedule_instances) = 2

\* C4: a create call whose time, driver and vehicle arguments equal the
\* template's defaults stores is_override = false, no override_fields, the
\* template's times and the departure_date of the cross-day rule.
NoOverrideResolves ==
    (/\ Created
     /\ last_call.args.p_standby_time = Defaults.standby_time
     /\ last_call.args.p_departure_time = Defaults.departure_time
     /\ last_call.args.p_driver_id = Defaults.default_driver_id
     /\ last_call.args.p_vehicle_id = Defaults.default_vehicle_id)
    => /\ Stored.is_override = "FALSE"
       /\ Stored.override_fields = << >>
       /\ Stored.standby_time = Defaults.standby_time
       /\ Stored.departure_time = Defaults.departure_time
       /\ Stored.departure_date =
             CrossDay(Stored.standby_date, Defaults.standby_time, Defaults.departure_time)

\* C5: after a create call override_fields names exactly the fields among
\* standby_time, departure_time, driver_id, vehicle_id whose stored value
\* differs from the template's default (absent against present differs), and
\* is_override is true iff override_fields is not empty.
OverrideFieldsExact ==
    Created =>
        /\ ("standby_time" \in Elements(Stored.override_fields))
              <=> (Stored.standby_time # Defaults.standby_time)
        /\ ("departure_time" \in Elements(Stored.override_fields))
              <=> (Stored.departure_time # Defaults.departure_time)
        /\ ("driver_id" \in Elements(Stored.override_fields))
              <=> (Stored.driver_id # Defaults.default_driver_id)
        /\ ("vehicle_id" \in Elements(Stored.override_fields))
              <=> (Stored.vehicle_id # Defaults.default_vehicle_id)
        /\ (Stored.is_override = "TRUE") <=> (Stored.override_fields # << >>)

\* C6: a create call for an existing template that has neither a requested
\* nor a default standby_time (or departure_time) fails and writes nothing.
MissingConfiguration ==
    [][(/\ CreateStep
        /\ last_call'.args.p_route_schedule_id \in DOMAIN route_schedules
        /\ LET a == last_call'.args
               t == route_schedules[a.p_route_schedule_id]
           IN  \/ (a.p_standby_time = NULL /\ t.standby_time = NULL)
               \/ (a.p_departure_time = NULL /\ t.departure_time = NULL))
       => /\ last_call'.error # "none"
          /\ schedule_instances' = schedule_instances
      ]_vars

\* C7: a create call whose route_schedule_id matches no route_schedules row
\* fails with the not-found error and leaves schedule_instances unchanged.
NotFoundFails ==
    [][(CreateStep /\ last_call'.args.p_route_schedule_id \notin DOMAIN route_schedules)
       => /\ last_call'.error = "Route schedule not found"
          /\ last_call'.id = NULL
          /\ schedule_instances' = schedule_instances
          /\ next_id' = next_id
      ]_vars

\* a not-found failure against a table that holds rows
NotFoundSeen ==
    /\ last_call.op = "create"
    /\ last_call.error = "Route schedule not found"
    /\ last_call.args.p_route_schedule_id = UnknownTemplateId
    /\ schedule_instances # {}

\* C8: the stored driver (vehicle) is the requested one, or else the
\* template's default; it is absent only when both are.
DefaultsResolved ==
    Created =>
        /\ Stored.driver_id = COALESCE(last_call.args.p_driver_id, Defaults.default_driver_id)
        /\ Stored.vehicle_id = COALESCE(last_call.args.p_vehicle_id, Defaults.default_vehicle_id)

SameArguments(b1, b2) ==
    /\ b1.p_start_date = b2.p_start_date
    /\ b1.p_end_date = b2.p_end_date
    /\ b1.p_route_schedule_ids = b2.p_route_schedule_ids

\* every write between the run's start and its return was the run's own
Undisturbed(b) == b.writes1 - b.writes0 = b.v_count

\* run q started after run p returned, with the same arguments, and nothing
\* else wrote between p's return and q's return
RunAgain(p, q) ==
    /\ bulk[p].pc = "done"
    /\ bulk[q].pc = "done"
    /\ p \in bulk[q].pred
    /\ SameArguments(bulk[p], bulk[q])
    /\ bulk[q].writes0 = bulk[p].writes1
    /\ Undisturbed(bulk[q])

\* C9: a bulk run repeated with the same arguments right after the first,
\* with no other write in between, returns 0 and leaves schedule_instances
\* as the first run left it.
BulkIdempotent ==
    \A p, q \in BulkProcs :
        RunAgain(p, q) => /\ bulk[q].v_count = 0
                          /\ bulk[q].after = bulk[p].after

\* a second run that found the rows of a first run that created some
SecondRunCreatesNothing ==
    /\ RunAgain(1, 2)
    /\ bulk[1].v_count > 1
    /\ bulk[2].v_count = 0

\* the (template, day) pairs a run is to cover, as the specification words it
Occurrences(rs, s, e, ids) ==
    {<<t, d>> \in (DOMAIN rs) \X (0 .. MaxDate + 1) :
        /\ rs[t].status = "Active"
        /\ (ids = NullArray \/ t \in ids)
        /\ GREATEST(s, rs[t].start_date) <= d
        /\ d <= LEAST(e, COALESCE(rs[t].end_date, e))
        /\ (rs[t].days_of_week = NullArray \/ DOW(d) \in rs[t].days_of_week)}

Pairs(rows) == {<<r.route_schedule_id, r.schedule_date>> : r \in rows}

\* C10: after an undisturbed bulk run an instance exists for every pair the
\* run is to cover (Active template, in ids, day in the window, weekday in
\* the recurrence set or the set unset), and the run created none for any
\* other pair.
BulkCovers ==
    \A p \in BulkProcs :
        (bulk[p].pc = "done" /\ Undisturbed(bulk[p])) =>
            LET occ == Occurrences(route_schedules, bulk[p].p_start_date,
                                   bulk[p].p_end_date, bulk[p].p_route_schedule_ids)
            IN  /\ occ \subseteq Pairs(bulk[p].after)
                /\ (Pairs(bulk[p].after) \ Pairs(bulk[p].before)) \subseteq occ

\* this step is the create call of bulk run p for the pair it tested
BulkCreateStep(p) == bulk[p].pc = "create" /\ bulk'[p].v_count = bulk[p].v_count + 1

\* C11: a bulk run never changes a field of a row that already exists, also
\* when a create call for the same pair commits between the run's NOT EXISTS
\* test and its own insert: every row present before a create call of the
\* run is present, unchanged, after it.
BulkKeepsExisting ==
    [][\A p \in BulkProcs :
          BulkCreateStep(p) => schedule_instances \subseteq schedule_instances'
      ]_vars

\* C12: the integer a bulk run returns is the number of rows the run created:
\* every create call the run counts adds one row to schedule_instances.
BulkCountsCreated ==
    [][\A p \in BulkProcs :
          BulkCreateStep(p) =>
              Cardinality(schedule_instances') = Cardinality(schedule_instances) + 1
      ]_vars

\* this step is a call of detect_schedule_conflicts_enhanced
DetectStep == conflicts'.seq = conflicts.seq + 1

\* the instances that count for a conflict on column col with value v on day d
Members(rows, col, v, d) ==
    {si \in rows : /\ si.status \in {"Scheduled", "Confirmed"}
                   /\ si[col] = v
                   /\ si.departure_date = d}

\* the rows of a result for one conflict type, day and resource
Hits(result, type, col, v, d) ==
    {c \in result : c.conflict_type = type /\ c.conflict_date = d /\ c[col] = v}

\* the detector reports the groups of column col exactly
OverlapExact(rows, result, type, col, values) ==
    /\ \A d \in 0 .. MaxDate + 2, v \in values :
          LET members == Members(rows, col, v, d)
              hits == Hits(result, type, col, v, d)
          IN  /\ hits # {} <=> Cardinality(members) >= 2
              /\ Cardinality(hits) <= 1
              /\ \A c \in hits : c.conflicting_instances = {si.id : si \in members}
    /\ \A c \in result :
          c.conflict_type = type => c.conflict_date \in 0 .. MaxDate + 2 /\ c[col] \in values

\* C13: the detector returns a Driver Overlap row for (d, r) iff at least two
\* instances with status Scheduled or Confirmed have driver r and
\* departure_date d, exactly one row per (d, r), whose conflicting_instances
\* are exactly the ids of those instances; likewise Vehicle Overlap rows for
\* vehicles; there is no other row.
OverlapsExact ==
    [][DetectStep =>
          /\ OverlapExact(schedule_instances, conflicts'.rows,
                          "Driver Overlap", "driver_id", Drivers)
          /\ OverlapExact(schedule_instances, conflicts'.rows,
                          "Vehicle Overlap", "vehicle_id", Vehicles)
          /\ \A c \in conflicts'.rows :
                c.conflict_type \in {"Driver Overlap", "Vehicle Overlap"}
      ]_vars

\* a reported driver group of two that leaves out a third instance of the
\* same driver and day, next to a vehicle group
OverlapReported ==
    /\ conflicts.seq = 1
    /\ \E c \in conflicts.rows, si \in schedule_instances :
          /\ c.conflict_type = "Driver Overlap"
          /\ Cardinality(c.conflicting_instances) = 2
          /\ si.driver_id = c.driver_id
          /\ si.departure_date = c.conflict_date
          /\ si.status = "Cancelled"
          /\ si.id \notin c.conflicting_instances
    /\ \E c \in conflicts.rows : c.conflict_type = "Vehicle Overlap"

\* C14: a conflict row over n instances has severity High when n > 3 and
\* Medium when 1 < n <= 3; Low is never reported.
SeverityBySize ==
    [][DetectStep =>
          \A c \in conflicts'.rows :
              LET n == Cardinality(c.conflicting_instances)
              IN  /\ n > 1
                  /\ c.severity = IF n > 3 THEN "High" ELSE "Medium"
      ]_vars

\* this step is an invocation of check-near-deadline
CheckStep == last_check'.seq = last_check.seq + 1

\* the departure timestamp of an instance: its departure date and time
DepartureTimestamp(si) == si.departure_date * 24 * 60 + si.departure_time

\* the Scheduled instances that depart in (t, t + h hours]
Due(rows, t, h) ==
    {si \in rows : /\ si.status = "Scheduled"
                   /\ si.departure_date # NULL
                   /\ si.departure_time # NULL
                   /\ t < DepartureTimestamp(si)
                   /\ DepartureTimestamp(si) <= t + h * 60}

\* the alerts this step inserts
NewAlerts == route_alerts' \ route_alerts

InstanceOf(alert) == CHOOSE si \in schedule_instances : si.id = alert.schedule_instance_id

\* C15: an invocation at time now with lookahead h (2 hours when the request
\* names none) creates an alert for every Scheduled instance whose departure
\* timestamp lies in (now, now + h], unless that insert failed, and for no
\* other instance.
AlertsForDue ==
    [][CheckStep =>
          LET h == IF last_check'.hours = NULL THEN 2 ELSE last_check'.hours
              due == {si.id : si \in Due(schedule_instances, now, h)}
              alerted == {a.schedule_instance_id : a \in NewAlerts}
          IN  /\ alerted \subseteq due
              /\ due \subseteq alerted \cup last_check'.failed
      ]_vars

\* C16: an alert has severity High when its instance departs at most one
\* hour after now, and Medium otherwise.
SeverityByHour ==
    [][CheckStep =>
          \A a \in NewAlerts :
              a.severity = IF DepartureTimestamp(InstanceOf(a)) - now <= 60
                           THEN "High" ELSE "Medium"
      ]_vars

\* C17: when alert inserts fail, the alerts of the other selected instances
\* are inserted, the failed instances are absent from the notifications, one
\* summary record is appended to audit_logs, and the response is a success
\* whose notifications_created is the number of inserted alerts.
FailureIsolated ==
    [][CheckStep =>
          LET c == last_check'
              inserted == c.filtered \ c.failed
          IN  /\ {a.schedule_instance_id : a \in NewAlerts} = inserted
              /\ Cardinality(NewAlerts) = Cardinality(inserted)
              /\ {c.notifications[i].schedule_id : i \in DOMAIN c.notifications} = inserted
              /\ Len(c.notifications) = Cardinality(inserted)
              /\ Len(audit_logs') = Len(audit_logs) + 1
              /\ SubSeq(audit_logs', 1, Len(audit_logs)) = audit_logs
              /\ audit_logs'[Len(audit_logs')].record_id = "deadline_check"
              /\ audit_logs'[Len(audit_logs')].new_values.notifications_created
                    = Cardinality(inserted)
              /\ c.success
              /\ c.status = 200
              /\ c.notifications_created = Cardinality(NewAlerts)
      ]_vars

\* an invocation that selected two instances and lost one insert
OneInsertFailed ==
    /\ last_check.seq = 1
    /\ Cardinality(last_check.filtered) = 2
    /\ Cardinality(last_check.failed) = 1
    /\ Cardinality(route_alerts) = 1
    /\ last_check.notifications_created = 1
    /\ Len(audit_logs) = 1

\* C18: however often the notifier is invoked, route_alerts holds at most one
\* reminder per instance.
OneReminderPerInstance ==
    \A si \in schedule_instances :
        Cardinality({a \in route_alerts : /\ a.schedule_instance_id = si.id
                                          /\ a.alert_type = "Reminder"}) <= 1

\* this step is a call of getRouteDistance
DistanceStep == last_distance'.seq = last_distance.seq + 1

SevenDays == 7 * 24 * 60

\* the cache row of the pair of the call, after the call
EntryAfter ==
    {e \in route_distance_cache' : /\ e.from_route_id = last_distance'.fromRouteId
                                   /\ e.to_route_id = last_distance'.toRouteId}

\* the call found a cache row younger than seven days
FreshBefore(c) == \E e \in c.before : now - e.last_updated < SevenDays

\* the call returns the values of the row it found
ReturnsCached(c) ==
    /\ c.error = "none"
    /\ \E e \in c.before :
          /\ c.result.distance_km = e.distance_km
          /\ c.result.travel_time_minutes = e.travel_time_minutes
          /\ c.result.traffic_factor = e.traffic_factor

\* a returned result is the answer of the mapping API, rounded: the length to
\* hundredths of a kilometre, the travel time to minutes
FromApi(c) ==
    c.error = "none" =>
        /\ c.response.error = "none"
        /\ 10 * c.result.distance_km - c.response.summary.lengthInMeters \in -5 .. 5
        /\ 60 * c.result.travel_time_minutes
              - c.response.summary.travelTimeInSeconds \in -30 .. 30

\* the call names two different routes, both in routes, with the coordinates
\* the call needs
CoordinatesKnown(c) ==
    /\ c.fromRouteId # c.toRouteId
    /\ c.fromRouteId \in DOMAIN routes
    /\ c.toRouteId \in DOMAIN routes
    /\ routes[c.fromRouteId].destination_coordinates # NULL
    /\ routes[c.toRouteId].origin_coordinates # NULL

\* C19: without forceRefresh the call returns the cached values without
\* calling the mapping API when the entry is younger than 7 days; when the
\* entry is 7 days old or older, or absent, it calls the mapping API and does
\* not return the cached values, nor any value when the API fails.
CacheFreshness ==
    [][(DistanceStep /\ ~last_distance'.forceRefresh) =>
          LET c == last_distance'
          IN  IF FreshBefore(c)
              THEN ReturnsCached(c) /\ ~c.api_called
              ELSE /\ c.api_called
                   /\ c.source # "cache"
                   /\ FromApi(c)
      ]_vars

\* C19 as amended: ... it calls the mapping API when both routes are found
\* with their coordinates and fails without calling it otherwise.
CacheFreshnessKnown ==
    [][(DistanceStep /\ ~last_distance'.forceRefresh) =>
          LET c == last_distance'
          IN  IF FreshBefore(c)
              THEN ReturnsCached(c) /\ ~c.api_called
              ELSE /\ CoordinatesKnown(c) => c.api_called
                   /\ ~CoordinatesKnown(c) => ~c.api_called /\ c.error # "none"
                   /\ c.source # "cache"
                   /\ FromApi(c)
      ]_vars

\* a lookup that found an entry exactly seven days old, called the mapping
\* API, which failed, and returned nothing
StaleNotReturned ==
    /\ last_distance.seq > 0
    /\ ~last_distance.forceRefresh
    /\ \E e \in last_distance.before : now - e.last_updated = SevenDays
    /\ last_distance.api_called
    /\ last_distance.error # "none"

SameValues(r1, r2) ==
    /\ r1.distance_km = r2.distance_km
    /\ r1.travel_time_minutes = r2.travel_time_minutes
    /\ r1.traffic_factor = r2.traffic_factor

\* the cache holds at most one entry per (from, to) pair
OneEntryPerPair(cache) ==
    \A e1, e2 \in cache :
        (e1.from_route_id = e2.from_route_id /\ e1.to_route_id = e2.to_route_id) => e1 = e2

\* the stored computations of the pair of call c
ComputedFor(c) ==
    {k \in last_distance.computed :
        k.fromRouteId = c.fromRouteId /\ k.toRouteId = c.toRouteId}

CacheWriteSwallowed ==
    [][(/\ DistanceStep
        /\ last_distance'.api_called
        /\ last_distance'.response.error = "none"
        /\ last_distance'.writeFails) =>
          LET c == last_distance'
          IN  /\ c.error = "none"
              /\ c.source = "api"
              /\ FromApi(c)
              /\ c.result = RouteResult(c.response.summary)
      ]_vars

\* a call whose API request succeeded and whose cache write failed returned
\* the computed result and left no cache row for the pair
WriteFailedResultReturned ==
    /\ last_distance.seq > 0
    /\ last_distance.api_called
    /\ last_distance.response.error = "none"
    /\ last_distance.writeFails
    /\ last_distance.error = "none"
    /\ last_distance.result.distance_km > 0
    /\ CacheRows(route_distance_cache, last_distance.fromRouteId,
                 last_distance.toRouteId) = {}

\* this step is a call of batchCalculateRoutes
BatchStep == last_batch'.seq = last_batch.seq + 1

\* the cache held a row of the pair younger than seven days when the batch began
FreshAtStart(b, pair) ==
    \E e \in b.before : /\ e.from_route_id = pair[1]
                          /\ e.to_route_id = pair[2]
                          /\ now - e.last_updated < SevenDays

\* the two routes of the pair are different, in routes, with their coordinates
PairKnown(pair) ==
    /\ pair[1] # pair[2]
    /\ pair[1] \in DOMAIN routes
    /\ pair[2] \in DOMAIN routes
    /\ routes[pair[1]].destination_coordinates # NULL
    /\ routes[pair[2]].origin_coordinates # NULL

\* the calculation of the i-th pair cannot succeed: nothing fresh is cached
\* for it, and its routes are unknown or the mapping API has failed for every
\* occurrence of the pair so far
MustFail(b, i) ==
    /\ ~FreshAtStart(b, b.routePairs[i])
    /\ \/ ~PairKnown(b.routePairs[i])
       \/ \A j \in 1 .. i : b.routePairs[j] = b.routePairs[i] =>
                                 b.answers[j].response.error # "none"

\* the calculation of the i-th pair cannot fail
MustSucceed(b, i) ==
    \/ FreshAtStart(b, b.routePairs[i])
    \/ PairKnown(b.routePairs[i]) /\ b.answers[i].response.error = "none"

\* C23: batchCalculateRoutes returns one entry per input pair, in input order;
\* a pair whose calculation fails gives an entry with result null and an error
\* message and the pairs after it are still processed; onProgress is called
\* once per pair with (i, total), i = 1 .. total in increasing order.
BatchCompletes ==
    [][BatchStep =>
          LET b == last_batch'
              total == Len(b.routePairs)
          IN  /\ Len(b.results) = total
              /\ \A i \in 1 .. total :
                    /\ b.results[i].fromRouteId = b.routePairs[i][1]
                    /\ b.results[i].toRouteId = b.routePairs[i][2]
                    /\ (b.results[i].result = NoResult) <=> (b.results[i].error # "none")
                    /\ MustFail(b, i) =>
                          b.results[i].result = NoResult /\ b.results[i].error # "none"
                    /\ MustSucceed(b, i) =>
                          b.results[i].result # NoResult /\ b.results[i].error = "none"
              /\ b.onProgress => b.progress = [i \in 1 .. total |-> <<i, total>>]
      ]_vars

\* a batch of two pairs whose first calculation failed and whose second one
\* succeeded, with both calls of onProgress made
FailureThenSuccess ==
    /\ last_batch.seq > 0
    /\ Len(last_batch.routePairs) = 2
    /\ Len(last_batch.results) = 2
    /\ last_batch.results[1].result = NoResult
    /\ last_batch.results[1].error = "TomTom API error"
    /\ last_batch.results[2].error = "none"
    /\ last_batch.results[2].result # NoResult
    /\ last_batch.onProgress
    /\ last_batch.progress = <<<<1, 2>>, <<2, 2>>>>

\* C24: in every row of schedule_overview, also for a template day without
\* an instance, departure_date is the date the cross-day rule derives from the
\* row's standby_date, standby_time and departure_time, and
\* is_cross_day_departure is true iff departure_time is earlier than
\* standby_time.
OverviewDepartureDerived ==
    \A row \in schedule_overview(route_schedules, schedule_instances, Dates) :
        /\ row.departure_date =
              CrossDay(row.standby_date, row.standby_time, row.departure_time)
        /\ row.is_cross_day_departure <=>
              (/\ row.standby_time # NULL
               /\ row.departure_time # NULL
               /\ row.departure_time < row.standby_time)

\* C25: every instance has a non-null departure_date equal to
\* calculate_departure_date(standby_date, standby_time, departure_time),
\* whatever create calls, bulk runs and direct inserts produced the table.
DepartureDateDerived ==
    \A r \in schedule_instances :
        /\ r.departure_date # NULL
        /\ r.departure_date =
              calculate_departure_date(r.standby_date, r.standby_time, r.departure_time)

\* C26: when a create call updates an existing instance, the instance keeps
\* its status, created_by, created_at, actual_departure_time and
\* actual_arrival_time, whatever its status was and whatever status the form
\* had chosen.
UpdateKeepsStatus ==
    [][(CreateStep /\ last_call'.error = "none") =>
          LET a == last_call'.args
          IN  \A old \in RowsOf(schedule_instances, a.p_route_schedule_id, a.p_schedule_date) :
                 \E new \in schedule_instances' :
                    /\ new.id = old.id
                    /\ new.route_schedule_id = old.route_schedule_id
                    /\ new.schedule_date = old.schedule_date
                    /\ new.status = old.status
                    /\ new.created_by = old.created_by
                    /\ new.created_at = old.created_at
                    /\ new.actual_departure_time = old.actual_departure_time
                    /\ new.actual_arrival_time = old.actual_arrival_time
      ]_vars

\* the form, submitted with status Scheduled and another driver for a Completed
\* instance that user 1 had created earlier, changed the driver and left the
\* status, the creator, the creation time and the actual times
CompletedResaved ==
    /\ Created
    /\ "form" \in DOMAIN last_call
    /\ last_call.form.status = "Scheduled"
    /\ Stored.status = "Completed"
    /\ Stored.driver_id = 2
    /\ Stored.created_by = 1
    /\ Stored.created_at < now
    /\ Stored.actual_departure_time # NULL
    /\ Stored.actual_arrival_time # NULL

\* C27: the preview of CrossDayScheduleForm agrees with the function: whenever
\* the form holds a standby date and two time strings, typed or loaded, its
\* departureDate is calculate_departure_date of these values and its
\* isCrossDayDeparture tells whether that is the day after the standby date
PreviewAgrees ==
    (form.mounted /\ form.standby_date # NULL) =>
        LET d == calculate_departure_date(form.standby_date, ToTime(form.standby_time),
                                          ToTime(form.departure_time))
        IN  /\ form.departureDate = d
            /\ form.isCrossDayDeparture = (d # form.standby_date)

\* the card of the last drop is shown by the column it was dropped on
ShownByDestination(b) ==
    \E s \in columns(b.schedules)[b.last.destination] : s.item = b.last.schedule.item

\* no schedule is shown by two columns
ColumnsDisjoint ==
    \A c1 \in ColumnIds : \A c2 \in ColumnIds \ {c1} :
        columns(board.schedules)[c1] \cap columns(board.schedules)[c2] = {}

\* C28: the four columns of ScheduleKanban are pairwise disjoint, and after a
\* card is dropped on a column and the schedules are refetched the card is
\* displayed in that column
DropLands ==
    /\ []ColumnsDisjoint
    /\ [][board'.last.seq # board.last.seq => ShownByDestination(board')]_vars

\* C29: whatever the user did in LargeScaleScheduleGrid, currentPage is not
\* negative and is a page of the current result set: its first row exists, or
\* it is page 0 of an empty result set
PageExists ==
    grid.mounted =>
        LET totalSchedules ==
                Cardinality(gridRows(route_schedules, schedule_instances,
                                     grid.currentWeek, grid.searchTerm, grid.filters))
        IN  /\ grid.currentPage >= 0
            /\ \/ grid.currentPage * grid.pageSize < totalSchedules
               \/ totalSchedules = 0 /\ grid.currentPage = 0

\* the generator, run alone on s .. e over an empty table with the templates
\* visited in order o, creates an instance for (t, d)
BulkCreates(s, e, o, t, d) ==
    \E r \in generate_schedule_instances_bulk(route_schedules, {}, 1, s, e,
                                               NullArray, o, 0).rows :
        r.route_schedule_id = t /\ r.schedule_date = d

\* C30: the view and the bulk generator agree on the days a template occurs:
\* for every Active template and every day of a range of dates, the view has
\* a row for the pair iff the generator run on the range over an empty table
\* creates an instance for it
ViewMatchesBulk ==
    \A s \in Dates : \A e \in s .. MaxDate :
        \A o \in Orders(SelectedSchedules(route_schedules, s, e, NullArray)) :
            \A t \in DOMAIN route_schedules : \A d \in s .. e :
                route_schedules[t].status = "Active" =>
                    (<<t, d>> \in date_series(route_schedules) <=> BulkCreates(s, e, o, t, d))
====
